---- MODULE Spec2Model ----
(***************************************************************************)
(* Model of the retrieval / cache / analytics core of comtradetools.py:    *)
(* split_period, getFinalData (cache lookup, retry loop, assembly and      *)
(* world-row removal), the rate-limited remote call, and the grouped       *)
(* subtotal / rank / percentage primitives.                                *)
(*                                                                         *)
(* Strings are sequences of one-character strings; a dataset (DataFrame)   *)
(* is a sequence of rows; None and an unbound local are the model values   *)
(* "None" and "Unbound".                                                   *)
(***************************************************************************)
EXTENDS Integers, Sequences, FiniteSets, TLC

VARIABLES
    \* ---- split_period on its own (SpecSplit)
    period,         \* the argument `period`, a string
    max_periods,    \* the argument `max_periods`
    period_list,    \* the returned list of strings
    spc,            \* "start" before the call, "returned" after it
    \* ---- getFinalData (Spec)
    kw,             \* keyword arguments of the running (or last) call
    pc,             \* position of the call: idle, lookup, try, except, while, done, raised
    subperiods,     \* split_period(period, period_size)
    i,              \* index of the sub-period the loop is at
    df,             \* rows gathered so far (before world-row removal)
    temp,           \* the local `temp`: Unbound, None or a dataset
    RETRY,          \* the global retry counter
    cache,          \* the cache directory: fingerprint -> [data, age in days]
    result,         \* the returned dataset, NoResult while none was returned
    error,          \* the exception the call raised, "none" if none
    \* ---- history of the run, for the properties
    parts,          \* the dataset each finished sub-period contributed
    calls,          \* remote calls issued by this getFinalData call
    attempts,       \* remote calls issued for the current sub-request
    sleeps,         \* time.sleep durations of the current sub-request
    expired,        \* the lookup of the current sub-period found an expired entry
    atLookup,       \* the cache directory as the current sub-request found it
    prev,           \* what the previous getFinalData call did
    gap,            \* days between the previous call and this one
    daysSince,      \* days since the last call was made
    ncalls,         \* getFinalData calls made so far
    \* ---- the rate-limited remote functions against the clock (SpecRate)
    rpc,            \* "idle", or "gd" inside the request loop of get_data
    lim,            \* per decorated function: seconds since last_reset, num_calls
    sinceOut,       \* seconds since the last outbound request
    lastGap,        \* seconds between the last outbound request and the one before
    gd_resp,        \* get_data: the last response of the service (resp)
    gd_waited,      \* get_data: seconds the limiter made the last call wait
    \* ---- subtotal, rank, total_rank_perc (SpecRank)
    adf,            \* the caller's DataFrame: a sequence of rows (column -> value)
    ain,            \* the caller's DataFrame as it was when the call was made
    akeys,          \* the group keys of the call
    aout,           \* what the call returned
    apc,            \* "start", then the function that was called
    \* ---- the API key in the output (SpecKey)
    key,            \* the API key, a string
    loglevel,       \* the level of the root logger
    kcall,          \* the call that was made
    klog,           \* log records and printed lines, in order
    kpc,            \* "start", then "returned"
    \* ---- fingerprints of two sub-requests (SpecFp)
    fkw,            \* the keyword arguments of each request, in the order passed
    ffp,            \* the cache file each request addressed
    fpc,            \* number of requests made
    \* ---- clean_cache and init against the cache directory (SpecSweep)
    cdir,           \* the cache directory: file name -> Absent or [age, content, accessed]
    INIT_DONE,      \* the global flag INIT_DONE
    sweeps,         \* runs of clean_cache so far
    forced,         \* calls of init with force_init=True so far
    wpc,            \* the last operation on the cache directory
    \* ---- comtrade.top_commodities (SpecTop)
    tdf,            \* what get_data returned: None or a sequence of rows
    targs,          \* the arguments rank_filter, partner_first, return_data
    tout,           \* what top_commodities returned
    tpc,            \* "start", then "returned" or "raised"
    \* ---- two processes at one cache file of getFinalData (SpecRace)
    qfile,          \* the cache file: absent, being written, or written
    qpc,            \* per process: the statement it is at
    qtemp,          \* per process: the local `temp`
    qused,          \* per process: the local `used_cache`
    qtouched,       \* per process: the other one changed the file since the existence check
    qerr,           \* per process: the exception it raised, "none" if none
    qretry,         \* per process: the argument retry_if_empty
    \* ---- the cache file of get_data (SpecGd)
    gcache,         \* the cache directory of get_data: file name -> dataset
    gargs,          \* the arguments of each get_data call made
    gout,           \* what each get_data call returned
    gpc,            \* number of get_data calls made
    \* ---- checkAggregateValues (SpecAgg)
    hcodes,         \* the column hcode_column of the DataFrame, in row order
    hflags,         \* the column aggregate_column after the call
    hpc             \* "start", then "returned" or "raised"

splitVars == <<period, max_periods, period_list, spc>>
callVars == <<kw, pc, subperiods, i, df, temp, RETRY, cache, result, error>>
histVars == <<parts, calls, attempts, sleeps, expired, atLookup, prev, gap, daysSince,
              ncalls>>
rateVars == <<rpc, lim, sinceOut, lastGap, gd_resp, gd_waited>>
rankVars == <<adf, ain, akeys, aout, apc>>
keyVars == <<key, loglevel, kcall, klog, kpc>>
fpVars == <<fkw, ffp, fpc>>
sweepVars == <<cdir, INIT_DONE, sweeps, forced, wpc>>
topVars == <<tdf, targs, tout, tpc>>
raceVars == <<qfile, qpc, qtemp, qused, qtouched, qerr, qretry>>
gdVars == <<gcache, gargs, gout, gpc>>
aggVars == <<hcodes, hflags, hpc>>
moreVars == <<raceVars, gdVars, aggVars>>
vars == <<splitVars, callVars, histVars, rateVars, rankVars, keyVars, fpVars,
          sweepVars, topVars, moreVars>>

----------------------------------------------------------------------------
(* Bounds of the model *)

\* longest period string (in characters) split_period is applied to
MaxLen == 5
\* largest max_periods split_period is applied with
MaxSize == 3
\* most keyword arguments of a request whose cache file is computed
MaxKwargs == 4
\* longest API key
MaxKeyLen == 10
\* most rows of a DataFrame given to subtotal, rank and total_rank_perc
MaxRows == 3
\* most periods a getFinalData request names
MaxPeriods == 2
\* getFinalData calls in one run
MaxCalls == 2

\* files of the cache directory clean_cache runs over
MaxFiles == 2
\* calls of init with force_init=True in one process
MaxForced == 2
\* days past the validity window a file can reach
MaxOver == 2

\* largest rank_filter top_commodities is called with
MaxRank == 2

\* processes running getFinalData at the same time
MaxProcs == 2

\* digits of a hierarchical code
MaxCodeLen == 2

----------------------------------------------------------------------------
(* Program constants *)

CALLS_PER_PERIOD == 1
PERIOD_SECONDS == 20
MAX_RETRIES == 5
MAX_SLEEP == 6
CACHE_VALID_DAYS == 60
\* get_url logs api_key[:8]
KeyPrefixLen == 8
\* partnerCode of the world aggregate row
WorldCode == 0

----------------------------------------------------------------------------
(* Strings *)

Comma == ","
Chars == {"1", "2", Comma}

Min(a, b) == IF a <= b THEN a ELSE b

Digit(d) == <<"0", "1", "2", "3", "4", "5", "6", "7", "8", "9">>[d + 1]

\* all strings over S of length 0..n
StringsUpTo(S, n) == UNION {[1..k -> S] : k \in 0..n}

\* str.split(","): one token per comma plus one, tokens may be empty
StrSplit(s) ==
    LET commas == {k \in 1..Len(s) : s[k] = Comma}
        \* the position of the n-th comma; 0 and Len(s) + 1 stand at the ends
        cut(n) == IF n = 0 THEN 0
                  ELSE IF n > Cardinality(commas) THEN Len(s) + 1
                  ELSE CHOOSE k \in commas :
                           Cardinality({c \in commas : c < k}) = n - 1
    IN  [n \in 1..(Cardinality(commas) + 1) |->
            SubSeq(s, cut(n - 1) + 1, cut(n) - 1)]

\* ",".join(list)
RECURSIVE StrJoin(_)
StrJoin(list) ==
    IF Len(list) = 0 THEN <<>>
    ELSE IF Len(list) = 1 THEN list[1]
    ELSE list[1] \o <<Comma>> \o StrJoin(Tail(list))

\* range(0, n, step) for step >= 1, as the ordered sequence of its elements
Range0(n, step) ==
    LET S == {j \in 0..(n - 1) : j % step = 0}
    IN  [k \in 1..Cardinality(S) |-> (k - 1) * step]

\* list[i : i + n] (0-based start, end clipped to the list)
Slice(list, from, n) == SubSeq(list, from + 1, Min(from + n, Len(list)))

split_period_dropping_tail(p, n) ==
    LET pl == StrSplit(p)
        starts == Range0(Len(pl), n)
    IN  [k \in 1..Len(starts) |-> StrJoin(Slice(pl, starts[k], n - 1))]

split_period(p, n) ==
    LET pl == StrSplit(p)
        starts == Range0(Len(pl), n)
    IN  [k \in 1..Len(starts) |-> StrJoin(Slice(pl, starts[k], n))]

----------------------------------------------------------------------------
(* Datasets, the remote service and the cache *)

\* The values a Python variable holds here: a DataFrame with its rows, None,
\* nothing yet (an unbound local), or, for the remote call, a raised exception.
DataFrame(rows) == [kind |-> "DataFrame", rows |-> rows]
None == [kind |-> "None", rows |-> <<>>]
Unbound == [kind |-> "Unbound", rows |-> <<>>]
NoResult == [kind |-> "NoResult", rows |-> <<>>]
RemoteException == [kind |-> "Exception", rows |-> <<>>]

\* partnerCode left unconstrained (None)
NoPartner == -1

\* A row: its partnerCode and the period it reports on.
Row(partner, sub) == [partnerCode |-> partner, period |-> sub]

\* The rows the service holds for a request: with partnerCode unconstrained,
\* one row per partner and the world aggregate among them; else that partner's.
RowsFor(partner, sub) ==
    IF partner = NoPartner
    THEN <<Row(226, sub), Row(WorldCode, sub), Row(620, sub)>>
    ELSE <<Row(partner, sub)>>

\* what one remote call can do: return the rows, return no row, return None,
\* or raise
Responses(k, sub) ==
    {DataFrame(RowsFor(k.partnerCode, sub)), DataFrame(<<>>), None, RemoteException}

\* DataFrame.size: zero exactly when there is no row (rows have columns)
Size(d) == Len(d.rows)

\* the periods a request can name: runs of consecutive years "1", "2", ...
Years == [y \in 1..MaxPeriods |-> <<Digit(y)>>]
GivenPeriods ==
    {StrJoin(SubSeq(Years, a, b)) : a \in 1..MaxPeriods, b \in 1..MaxPeriods} \ {<<>>}

\* period left out (kwp.get("period", None) is None), and period=""
NoPeriod == <<"None">>
EmptyString == <<>>
QueryPeriods == GivenPeriods \cup {NoPeriod, EmptyString}

\* the keyword arguments a call can be made with
KwArgs ==
    [period : QueryPeriods, period_size : 1..MaxPeriods,
     cache : BOOLEAN, retry_if_empty : BOOLEAN, remove_world : BOOLEAN,
     partnerCode : {NoPartner, WorldCode}]

NoKw ==
    [period |-> <<>>, period_size |-> 1, cache |-> TRUE, retry_if_empty |-> TRUE,
     remove_world |-> FALSE, partnerCode |-> NoPartner]

\* the md5 of str(kwp): the keyword arguments left after the control flags
\* were deleted, with period set to the sub-period
FingerprintWithFlags(k, sub) ==
    [period |-> sub, partnerCode |-> k.partnerCode, remove_world |-> k.remove_world]
FingerprintOfWholePeriod(k, sub) == [period |-> k.period, partnerCode |-> k.partnerCode]
Fingerprint(k, sub) == [period |-> sub, partnerCode |-> k.partnerCode]

\* days_since_modification <= CACHE_VALID_DAYS
CacheValidStrict(age) == age < CACHE_VALID_DAYS
CacheValid(age) == age <= CACHE_VALID_DAYS

\* os.remove(cache_file)
RemoveFile(c, fp) == [f \in (DOMAIN c) \ {fp} |-> c[f]]

\* pickle.dump(temp, f) into cache_file
WriteNothing(c, fp, d) == c
WriteFile(c, fp, d) ==
    [f \in (DOMAIN c) \cup {fp} |-> IF f = fp THEN [data |-> d, age |-> 0] ELSE c[f]]

\* sleep = MAX_SLEEP * (RETRY + 1)
BackoffConstant(retry) == MAX_SLEEP
BackoffSleep(retry) == MAX_SLEEP * (retry + 1)

\* while temp is None and RETRY < MAX_RETRIES
RetryAllowedForever(t, retry) == t = None
RetryAllowedOneFewer(t, retry) == t = None /\ retry < MAX_RETRIES - 1
RetryAllowedOrEmpty(t, retry) == (t = None \/ Size(t) = 0) /\ retry < MAX_RETRIES
RetryAllowed(t, retry) == t = None /\ retry < MAX_RETRIES

\* if temp is not None and temp.size > 0: df = pd.concat([df, temp])
ConcatInFront(d, t) == IF t # None /\ Size(t) > 0 THEN t.rows \o d ELSE d
Concat(d, t) == IF t # None /\ Size(t) > 0 THEN d \o t.rows ELSE d

NotWorld(row) == row.partnerCode # WorldCode

\* "partnerCode" in df.columns: df has columns once a dataset was concatenated
HasPartnerColumn(d) == Len(d) > 0

\* df = df[df.partnerCode != 0] when partnerCode is None and remove_world
RemoveWorldAlways(d, partnerCode, remove_world) ==
    IF HasPartnerColumn(d) THEN SelectSeq(d, NotWorld) ELSE d
RemoveWorldRows(d, partnerCode, remove_world) ==
    IF partnerCode = NoPartner /\ remove_world /\ HasPartnerColumn(d)
    THEN SelectSeq(d, NotWorld)
    ELSE d

\* temp.size == 0 and retry_if_empty
RetryEmptyAlways(t, retry_if_empty) == Size(t) = 0
RetryEmpty(t, retry_if_empty) == Size(t) = 0 /\ retry_if_empty

\* days pass: a file's age grows; past the validity window it only stays expired
DaySteps == {CACHE_VALID_DAYS, CACHE_VALID_DAYS + 1}
Older(age, d) == Min(age + d, CACHE_VALID_DAYS + 1)

EmptyCache == [f \in {} |-> 0]

----------------------------------------------------------------------------
(* getFinalData *)

NoPrev == [status |-> "none", kw |-> NoKw, result |-> NoResult,
           onePerSub |-> FALSE, nonEmpty |-> FALSE, at |-> 0, fresh |-> FALSE]

\* the sub-periods before sub-period k all have a cache entry written since
\* the last day passed
FreshBefore(c, k, subs, n) ==
    \A j \in 1..(n - 1) :
        /\ Fingerprint(k, subs[j]) \in DOMAIN c
        /\ c[Fingerprint(k, subs[j])].age = 0

\* the call raises: no dataset is returned
Raise(e) ==
    /\ pc' = "raised"
    /\ error' = e
    /\ UNCHANGED <<result, i, df, parts>>

\* the sub-period is finished with dataset t: concatenate, then go to the
\* next sub-period or, after the last, remove the world rows and return
FinishSubperiod(t) ==
    LET d == Concat(df, t)
    IN  /\ df' = d
        /\ parts' = Append(parts, t)
        /\ error' = error
        /\ IF i = Len(subperiods)
           THEN /\ pc' = "done"
                /\ result' = DataFrame(RemoveWorldRows(d, kw.partnerCode, kw.remove_world))
                /\ i' = i
           ELSE /\ pc' = "lookup"
                /\ result' = result
                /\ i' = i + 1

\* getFinalData(**k) is called: the arguments are taken apart and the period split
\* One run keeps its flags and its partnerCode; its calls differ in period
\* and period_size.
SameFlags(k1, k2) ==
    /\ k1.cache = k2.cache
    /\ k1.retry_if_empty = k2.retry_if_empty
    /\ k1.remove_world = k2.remove_world
    /\ k1.partnerCode = k2.partnerCode

Invoke(k) ==
    /\ pc = "idle"
    /\ ncalls < MaxCalls
    /\ kw' = k
    /\ IF k.period = NoPeriod
       THEN \* raise ValueError("Period is required")
            /\ Raise("ValueError")
            /\ subperiods' = <<>>
       ELSE /\ subperiods' = split_period(k.period, k.period_size)
            /\ i' = 1
            /\ pc' = "lookup"
            /\ UNCHANGED <<df, result, error, parts>>
    /\ gap' = daysSince
    /\ daysSince' = 0
    /\ ncalls' = ncalls + 1
    /\ UNCHANGED <<temp, RETRY, cache>>
    /\ UNCHANGED <<calls, attempts, sleeps, expired, atLookup, prev>>
    /\ UNCHANGED <<splitVars, rateVars, rankVars, keyVars, fpVars, sweepVars, topVars, moreVars>>

CallWith(k) ==
    /\ ncalls = 0 \/ SameFlags(k, prev.kw)
    /\ Invoke(k)

\* the cache is missed: go on to the remote call
ToFetchKeepingRetry ==
    /\ pc' = "try"
    /\ RETRY' = RETRY
    /\ attempts' = 0
    /\ sleeps' = <<>>
    /\ UNCHANGED <<result, error, i, df, parts>>
ToFetch ==
    /\ pc' = "try"
    /\ RETRY' = 0
    /\ attempts' = 0
    /\ sleeps' = <<>>
    /\ UNCHANGED <<result, error, i, df, parts>>

\* top of the loop body: the cache lookup for sub-period i
Lookup ==
    /\ pc = "lookup"
    /\ atLookup' = cache
    /\ LET fp == Fingerprint(kw, subperiods[i])
       IN  IF kw.cache /\ fp \in DOMAIN cache
           THEN LET valid == CacheValid(cache[fp].age)
                    t1 == IF valid THEN cache[fp].data ELSE temp
                    c1 == IF valid THEN cache ELSE RemoveFile(cache, fp)
                IN  /\ expired' = ~valid
                    /\ temp' = t1
                    /\ IF t1 = Unbound
                       THEN \* temp.size is read before temp was ever assigned
                            /\ cache' = c1
                            /\ Raise("UnboundLocalError")
                            /\ UNCHANGED <<RETRY, attempts, sleeps>>
                       ELSE IF RetryEmpty(t1, kw.retry_if_empty)
                       THEN IF fp \in DOMAIN c1
                            THEN /\ cache' = RemoveFile(c1, fp)
                                 /\ ToFetch
                            ELSE \* os.remove of a file that was just removed
                                 /\ cache' = c1
                                 /\ Raise("FileNotFoundError")
                                 /\ UNCHANGED <<RETRY, attempts, sleeps>>
                       ELSE IF valid
                       THEN /\ cache' = c1
                            /\ FinishSubperiod(t1)
                            /\ UNCHANGED <<RETRY, attempts, sleeps>>
                       ELSE /\ cache' = c1
                            /\ ToFetch
           ELSE /\ expired' = FALSE
                /\ ToFetch
                /\ UNCHANGED <<temp, cache>>
    /\ UNCHANGED <<kw, subperiods, calls, prev, gap, daysSince, ncalls>>
    /\ UNCHANGED <<splitVars, rateVars, rankVars, keyVars, fpVars, sweepVars, topVars, moreVars>>

\* one remote call is issued for the current sub-request
RemoteCall ==
    /\ calls' = calls + 1
    /\ attempts' = attempts + 1

\* the first remote call of the sub-request, inside try
TryWith(resp) ==
    /\ pc = "try"
    /\ RemoteCall
    /\ IF resp = RemoteException
       THEN /\ sleeps' = Append(sleeps, MAX_SLEEP)
            /\ RETRY' = RETRY + 1
            /\ pc' = "except"
            /\ temp' = temp
       ELSE /\ temp' = resp
            /\ pc' = "while"
            /\ UNCHANGED <<sleeps, RETRY>>
    /\ UNCHANGED <<kw, subperiods, i, df, cache, result, error, parts, expired, atLookup,
                   prev, gap, daysSince, ncalls>>
    /\ UNCHANGED <<splitVars, rateVars, rankVars, keyVars, fpVars, sweepVars, topVars, moreVars>>

\* the remote call repeated in the except handler, outside any try
ExceptWith(resp) ==
    /\ pc = "except"
    /\ RemoteCall
    /\ IF resp = RemoteException
       THEN /\ Raise("RemoteException")
            /\ temp' = temp
       ELSE /\ temp' = resp
            /\ pc' = "while"
            /\ UNCHANGED <<result, error, i, df, parts>>
    /\ UNCHANGED <<kw, subperiods, RETRY, cache, sleeps, expired, atLookup,
                   prev, gap, daysSince, ncalls>>
    /\ UNCHANGED <<splitVars, rateVars, rankVars, keyVars, fpVars, sweepVars, topVars, moreVars>>

\* one round of `while temp is None and RETRY < MAX_RETRIES`
WhileRetryWith(resp) ==
    /\ pc = "while"
    /\ RetryAllowed(temp, RETRY)
    /\ sleeps' = Append(sleeps, BackoffSleep(RETRY))
    /\ RETRY' = RETRY + 1
    /\ RemoteCall
    /\ IF resp = RemoteException
       THEN /\ Raise("RemoteException")
            /\ temp' = temp
       ELSE /\ temp' = resp
            /\ pc' = "while"
            /\ UNCHANGED <<result, error, i, df, parts>>
    /\ UNCHANGED <<kw, subperiods, cache, expired, atLookup, prev, gap, daysSince, ncalls>>
    /\ UNCHANGED <<splitVars, rateVars, rankVars, keyVars, fpVars, sweepVars, topVars, moreVars>>

CurrentResponses == Responses(kw, subperiods[i])

Try == pc = "try" /\ \E resp \in CurrentResponses : TryWith(resp)

Except == pc = "except" /\ \E resp \in CurrentResponses : ExceptWith(resp)

WhileRetry == pc = "while" /\ \E resp \in CurrentResponses : WhileRetryWith(resp)

\* what follows the loop when temp is still None
SkipSubperiod == FinishSubperiod(None)
RaiseIOError == Raise("IOError")

\* after the loop, temp still None: raise IOError
Exhausted ==
    /\ pc = "while"
    /\ ~RetryAllowed(temp, RETRY)
    /\ temp = None
    /\ RaiseIOError
    /\ UNCHANGED <<kw, subperiods, temp, RETRY, cache, calls, attempts, sleeps,
                   expired, atLookup, prev, gap, daysSince, ncalls>>
    /\ UNCHANGED <<splitVars, rateVars, rankVars, keyVars, fpVars, sweepVars, topVars, moreVars>>

\* after the loop, temp is a dataset: save it in the cache and concatenate
Accept ==
    /\ pc = "while"
    /\ temp # None
    /\ cache' = IF kw.cache
                THEN WriteFile(cache, Fingerprint(kw, subperiods[i]), temp)
                ELSE cache
    /\ FinishSubperiod(temp)
    /\ UNCHANGED <<kw, subperiods, temp, RETRY, calls, attempts, sleeps,
                   expired, atLookup, prev, gap, daysSince, ncalls>>
    /\ UNCHANGED <<splitVars, rateVars, rankVars, keyVars, fpVars, sweepVars, topVars, moreVars>>

RECURSIVE AllNonEmpty(_)
AllNonEmpty(ps) == Len(ps) = 0 \/ (Size(ps[1]) > 0 /\ AllNonEmpty(Tail(ps)))

\* the call is over (returned or raised): its locals are gone; the cache
\* directory and the global RETRY stay
Return ==
    /\ pc \in {"done", "raised"}
    /\ pc' = "idle"
    /\ prev' = [status |-> pc, kw |-> kw, result |-> result,
                onePerSub |-> (calls = Len(subperiods)),
                nonEmpty |-> AllNonEmpty(parts),
                at |-> IF pc = "raised" /\ Len(subperiods) > 0 THEN i ELSE 0,
                fresh |-> (pc = "raised" /\ Len(subperiods) > 0
                           /\ FreshBefore(cache, kw, subperiods, i))]
    /\ kw' = NoKw
    /\ subperiods' = <<>>
    /\ i' = 1
    /\ df' = <<>>
    /\ temp' = Unbound
    /\ result' = NoResult
    /\ error' = "none"
    /\ parts' = <<>>
    /\ calls' = 0
    /\ attempts' = 0
    /\ sleeps' = <<>>
    /\ expired' = FALSE
    /\ atLookup' = EmptyCache
    /\ UNCHANGED <<RETRY, cache, gap, daysSince, ncalls>>
    /\ UNCHANGED <<splitVars, rateVars, rankVars, keyVars, fpVars, sweepVars, topVars, moreVars>>

\* days pass between two calls: every cache file gets older
TickBy(d) ==
    /\ pc = "idle"
    /\ ncalls \in 1..(MaxCalls - 1)
    /\ daysSince <= CACHE_VALID_DAYS
    /\ cache' = [f \in DOMAIN cache |-> [cache[f] EXCEPT !.age = Older(@, d)]]
    /\ daysSince' = Older(daysSince, d)
    /\ UNCHANGED <<kw, pc, subperiods, i, df, temp, RETRY, result, error,
                   parts, calls, attempts, sleeps, expired, atLookup, prev, gap, ncalls>>
    /\ UNCHANGED <<splitVars, rateVars, rankVars, keyVars, fpVars, sweepVars, topVars, moreVars>>

Call == \E k \in KwArgs : CallWith(k)

Tick == \E d \in DaySteps : TickBy(d)

SplitParked ==
    /\ period = <<>>
    /\ max_periods = 1
    /\ period_list = <<>>
    /\ spc = "parked"

\* no getFinalData call was made yet; c is the cache directory as found
ProcessStart(c) ==
    /\ kw = NoKw
    /\ pc = "idle"
    /\ subperiods = <<>>
    /\ i = 1
    /\ df = <<>>
    /\ temp = Unbound
    /\ RETRY = 0
    /\ cache = c
    /\ result = NoResult
    /\ error = "none"
    /\ parts = <<>>
    /\ calls = 0
    /\ attempts = 0
    /\ sleeps = <<>>
    /\ expired = FALSE
    /\ atLookup = EmptyCache
    /\ prev = NoPrev
    /\ gap = 0
    /\ daysSince = 0
    /\ ncalls = 0

CallParked == ProcessStart(EmptyCache)

\* the two decorated functions, each with a limiter of its own
Limited == {"comtradeapicall_getFinalData", "get_data"}

NoResp == [status |-> 0, body |-> "none"]

RateParked ==
    /\ rpc = "idle"
    /\ gd_resp = NoResp
    /\ gd_waited = 0
    /\ lim = [f \in Limited |-> [sinceReset |-> 0, numCalls |-> 0]]
    /\ sinceOut = PERIOD_SECONDS
    /\ lastGap = PERIOD_SECONDS

RankParked ==
    /\ adf = <<>>
    /\ ain = <<>>
    /\ akeys = <<>>
    /\ aout = <<>>
    /\ apc = "parked"

NoKeyCall == [fn |-> "none", echo_url |-> FALSE, more_pars |-> <<>>, by_keyword |-> FALSE]

KeyParked ==
    /\ key = <<>>
    /\ loglevel = "INFO"
    /\ kcall = NoKeyCall
    /\ klog = <<>>
    /\ kpc = "parked"

FpParked ==
    /\ fkw = <<>>
    /\ ffp = <<>>
    /\ fpc = -1

SweepParked ==
    /\ cdir = <<>>
    /\ INIT_DONE = FALSE
    /\ sweeps = 0
    /\ forced = 0
    /\ wpc = "parked"

TopParked ==
    /\ tdf = <<>>
    /\ targs = <<>>
    /\ tout = <<>>
    /\ tpc = "parked"

RaceParked ==
    /\ qfile = <<>>
    /\ qpc = <<>>
    /\ qtemp = <<>>
    /\ qused = <<>>
    /\ qtouched = <<>>
    /\ qerr = <<>>
    /\ qretry = <<>>

GdParked ==
    /\ gcache = <<>>
    /\ gargs = <<>>
    /\ gout = <<>>
    /\ gpc = -1

AggParked ==
    /\ hcodes = <<>>
    /\ hflags = <<>>
    /\ hpc = "parked"

MoreParked == RaceParked /\ GdParked /\ AggParked

Init ==
    /\ SplitParked /\ CallParked /\ RateParked /\ RankParked /\ KeyParked /\ FpParked
    /\ SweepParked /\ TopParked /\ MoreParked

Next ==
    \/ Call
    \/ Lookup
    \/ Try
    \/ Except
    \/ WhileRetry
    \/ Exhausted
    \/ Accept
    \/ Return
    \/ Tick

Spec == Init /\ [][Next]_vars

\* the cache directories one getFinalData call is followed on: empty, or
\* holding for the first year an entry with or without rows, fresh or expired
LiveCaches ==
    {EmptyCache} \cup
    {[f \in {[period |-> Years[1], partnerCode |-> p]} |-> [data |-> d, age |-> a]] :
        p \in {NoPartner, WorldCode},
        d \in {DataFrame(<<Row(WorldCode, Years[1])>>), DataFrame(<<>>)},
        a \in {0, CACHE_VALID_DAYS + 1}}

LiveInit ==
    /\ SplitParked /\ RateParked /\ RankParked /\ KeyParked /\ FpParked
    /\ SweepParked /\ TopParked /\ MoreParked
    /\ \E c \in LiveCaches : ProcessStart(c)

\* the first getFinalData call of the process
FirstCall == ncalls = 0 /\ Call

LiveNext ==
    \/ FirstCall
    \/ Lookup
    \/ Try
    \/ Except
    \/ WhileRetry
    \/ Exhausted
    \/ Accept
    \/ Return

\* a running call goes on: the interpreter executes the next statement, and
\* every remote call returns or raises
RunningStep == Lookup \/ Try \/ Except \/ WhileRetry \/ Exhausted \/ Accept
SpecLive == LiveInit /\ [][LiveNext]_vars /\ WF_vars(RunningStep)

----------------------------------------------------------------------------
(* getFinalData called for one year with different API keys and flags *)

\* the API key, the one positional argument p[0]
ApiKeys == {"KEY1", "KEY2"}

\* calls for the first year: the key and every control flag vary from one
\* call to the next
ShareKwArgs ==
    [period : {Years[1]}, period_size : 1..MaxPeriods,
     cache : BOOLEAN, retry_if_empty : BOOLEAN, remove_world : BOOLEAN,
     partnerCode : {NoPartner}, p : ApiKeys]

\* getFinalData(k.p, **k); the first call of the process comes with KEY1
ShareCall ==
    \E k \in ShareKwArgs :
        /\ ncalls = 0 => k.p = "KEY1"
        /\ Invoke(k)

ShareNext ==
    \/ ShareCall
    \/ Lookup
    \/ Try
    \/ Except
    \/ WhileRetry
    \/ Exhausted
    \/ Accept
    \/ Return
    \/ Tick

SpecShare == Init /\ [][ShareNext]_vars
----------------------------------------------------------------------------
(* split_period applied to every bounded period string *)

\* the thirteen years 2018..2030 of the scenario
YearStr(y) == <<Digit(y \div 1000), Digit((y \div 100) % 10),
                Digit((y \div 10) % 10), Digit(y % 10)>>
ScenarioYears == [k \in 1..13 |-> YearStr(2017 + k)]
ScenarioPeriod == StrJoin(ScenarioYears)

SplitInit ==
    /\ \/ /\ period \in StringsUpTo(Chars, MaxLen)
          /\ max_periods \in 1..MaxSize
       \/ /\ period = ScenarioPeriod
          /\ max_periods = 12
    /\ period_list = <<>>
    /\ spc = "start"
    /\ CallParked
    /\ RateParked
    /\ RankParked
    /\ KeyParked
    /\ FpParked
    /\ SweepParked /\ TopParked /\ MoreParked

SplitCall ==
    /\ spc = "start"
    /\ period_list' = split_period(period, max_periods)
    /\ spc' = "returned"
    /\ UNCHANGED <<period, max_periods, callVars, histVars, rateVars, rankVars,
                   keyVars, fpVars, sweepVars, topVars, moreVars>>

SplitNext == SplitCall

SpecSplit == SplitInit /\ [][SplitNext]_vars

----------------------------------------------------------------------------
(* The rate limit: @sleep_and_retry @limits(calls, period) *)

\* a timer runs on; at PERIOD_SECONDS the window has elapsed and it stops
Advance(t, d) == Min(t + d, PERIOD_SECONDS)

\* limits: period_remaining = period - (clock() - last_reset)
PeriodRemaining(l) == PERIOD_SECONDS - l.sinceReset

\* limits raises RateLimitException when, inside the window, the call count
\* passes CALLS_PER_PERIOD; sleep_and_retry then sleeps period_remaining
LimiterWait(l) ==
    IF PeriodRemaining(l) > 0 /\ l.numCalls + 1 > CALLS_PER_PERIOD
    THEN PeriodRemaining(l)
    ELSE 0

\* the limiter once the call went through: a window that had elapsed (at
\* once, or after the sleep) was restarted at this call
LimiterAfter(l) ==
    IF PeriodRemaining(l) <= 0 \/ l.numCalls + 1 > CALLS_PER_PERIOD
    THEN [sinceReset |-> 0, numCalls |-> 1]
    ELSE [sinceReset |-> l.sinceReset, numCalls |-> l.numCalls + 1]

\* d seconds pass for every limiter
LimAdvance(lm, d) ==
    [f \in Limited |-> [lm[f] EXCEPT !.sinceReset = Advance(@, d)]]

\* function f is entered through its limiter, after waiting w seconds
LimEnter(f, w) ==
    [LimAdvance(lim, w) EXCEPT ![f] = LimiterAfter(lim[f])]

\* what the rate-limited functions leave alone
RateFrame ==
    /\ UNCHANGED <<splitVars, rankVars, keyVars, fpVars, sweepVars, topVars, moreVars>>
    /\ UNCHANGED <<parts, calls, expired, atLookup, prev, gap, daysSince, ncalls>>
    /\ UNCHANGED <<kw, pc, subperiods, i, df, temp, cache>>

\* seconds the caller lets pass between two operations
IdleSteps == {10, PERIOD_SECONDS}

Elapse ==
    /\ rpc = "idle"
    /\ \E d \in IdleSteps :
           /\ lim' = LimAdvance(lim, d)
           /\ sinceOut' = Advance(sinceOut, d)
    /\ UNCHANGED <<rpc, lastGap, gd_resp, gd_waited, RETRY, result, error, attempts, sleeps>>
    /\ RateFrame

\* comtradeapicall_getFinalData: through the limiter, then one outbound call
InvokeFinal ==
    /\ rpc = "idle"
    /\ LET w == LimiterWait(lim["comtradeapicall_getFinalData"])
       IN  /\ lim' = LimEnter("comtradeapicall_getFinalData", w)
           /\ lastGap' = Advance(sinceOut, w)
           /\ sinceOut' = 0
    /\ UNCHANGED <<rpc, gd_resp, gd_waited, RETRY, result, error, attempts, sleeps>>
    /\ RateFrame

\* the DataFrame get_data finds in its cache, or builds from a response with rows
GdDataFrame == DataFrame(<<Row(WorldCode, <<"2">>)>>)

\* get_data: through the limiter, then either the cached DataFrame is
\* returned or the request loop starts with RETRY = 0
InvokeGetData ==
    /\ rpc = "idle"
    /\ LET w == LimiterWait(lim["get_data"])
       IN  /\ lim' = LimEnter("get_data", w)
           /\ sinceOut' = Advance(sinceOut, w)
           /\ gd_waited' = w
    /\ \/ rpc' = "idle" /\ RETRY' = RETRY /\ result' = GdDataFrame
       \/ rpc' = "gd" /\ RETRY' = 0 /\ result' = NoResult
    /\ gd_resp' = NoResp
    /\ error' = "none"
    /\ attempts' = 0
    /\ sleeps' = <<>>
    /\ UNCHANGED lastGap
    /\ RateFrame

\* what the service can answer: a status code and a body that is a JSON
\* document (with rows, without rows, an error payload, a message) or is not
GdResponses ==
    [status : {200}, body : {"rows", "norows", "errorpayload", "notjson"}]
    \cup [status : {429, 500}, body : {"message", "notjson"}]

\* get_data after its request loop: what it returns or raises for the last
\* response (json.loads raises on a body that is not JSON)
GdOutcome(r) ==
    IF r.body = "notjson" THEN [result |-> NoResult, error |-> "JSONDecodeError"]
    ELSE IF r.status # 200 THEN [result |-> None, error |-> "none"]
    ELSE IF r.body = "errorpayload" THEN [result |-> None, error |-> "none"]
    ELSE IF r.body = "norows" THEN [result |-> None, error |-> "none"]
    ELSE [result |-> GdDataFrame, error |-> "none"]

\* one round of `while RETRY < MAX_RETRIES`: requests.get; on 429 the backoff
\* sleep and another round; on any other status the loop is left and the
\* response handled
GdRequest ==
    /\ rpc = "gd"
    /\ RETRY < MAX_RETRIES
    /\ lastGap' = sinceOut
    /\ attempts' = attempts + 1
    /\ UNCHANGED gd_waited
    /\ \E r \in GdResponses :
           /\ gd_resp' = r
           /\ IF r.status = 429 /\ r.body # "notjson"
              THEN /\ RETRY' = RETRY + 1
                   /\ sleeps' = Append(sleeps, BackoffSleep(RETRY))
                   /\ lim' = LimAdvance(lim, BackoffSleep(RETRY))
                   /\ sinceOut' = Advance(0, BackoffSleep(RETRY))
                   /\ rpc' = "gd"
                   /\ UNCHANGED <<result, error>>
              ELSE /\ rpc' = "idle"
                   /\ sinceOut' = 0
                   /\ RETRY' = IF r.status = 429 THEN RETRY + 1 ELSE RETRY
                   /\ result' = GdOutcome(r).result
                   /\ error' = GdOutcome(r).error
                   /\ UNCHANGED <<lim, sleeps>>
    /\ RateFrame

\* the loop ends with the retries used up: the last 429 is handled
GdExit ==
    /\ rpc = "gd"
    /\ ~(RETRY < MAX_RETRIES)
    /\ rpc' = "idle"
    /\ result' = GdOutcome(gd_resp).result
    /\ error' = GdOutcome(gd_resp).error
    /\ UNCHANGED <<lim, sinceOut, lastGap, gd_resp, gd_waited, RETRY, attempts, sleeps>>
    /\ RateFrame

RateInit ==
    /\ SplitParked /\ CallParked /\ RateParked /\ RankParked /\ KeyParked /\ FpParked
    /\ SweepParked /\ TopParked /\ MoreParked

RateNext ==
    \/ Elapse
    \/ InvokeFinal
    \/ InvokeGetData
    \/ GdRequest
    \/ GdExit

SpecRate == RateInit /\ [][RateNext]_vars

\* C6: every outbound request comes at least PERIOD_SECONDS after the
\* outbound request before it, whichever function issued either of them and
\* whether it is a first attempt or a retry.
C6_OneCallPerWindow == lastGap >= PERIOD_SECONDS

----------------------------------------------------------------------------
(* subtotal, rank, total_rank_perc *)

\* a quotient of two integers, as computed by `/`
Frac(n, d) == [num |-> n, den |-> d]
FracEq(x, y) == x.num * y.den = y.num * x.den

\* the rows given to the functions: two key columns and a value column
BaseRows == [a : {1, 2}, b : {1, 2}, v : {10, 50, 100}]

\* the values 100, 100, 50, 10 in one group
ScenarioRows ==
    <<[a |-> 1, b |-> 1, v |-> 100], [a |-> 1, b |-> 1, v |-> 100],
      [a |-> 1, b |-> 1, v |-> 50], [a |-> 1, b |-> 1, v |-> 10]>>

KeyLists == {<<"a">>, <<"a", "b">>}

\* the group a row belongs to under df.groupby(keys)
GroupKey(row, keys) == [k \in 1..Len(keys) |-> row[keys[k]]]
SameGroup(d, keys, j, k) == GroupKey(d[j], keys) = GroupKey(d[k], keys)
GroupOf(d, keys, k) == {j \in 1..Len(d) : SameGroup(d, keys, j, k)}

\* the sum of column col over the rows with index in S
RECURSIVE SumCol(_, _, _)
SumCol(d, col, S) ==
    IF S = {} THEN 0
    ELSE LET j == CHOOSE x \in S : TRUE
         IN  d[j][col] + SumCol(d, col, S \ {j})

\* groupby[:-1]
ButLast(keys) == SubSeq(keys, 1, Len(keys) - 1)

\* df.groupby(groupby)[col].transform("sum"): one value per row, in row order
subtotal_cumulative(d, groupby, col) ==
    [k \in 1..Len(d) |->
        SumCol(d, col, {j \in GroupOf(d, groupby, k) : j <= k})]
subtotal(d, groupby, col) ==
    [k \in 1..Len(d) |-> SumCol(d, col, GroupOf(d, groupby, k))]

\* df.groupby(rankby)[col].rank(ascending=False, method="dense").astype(int)
rank_min(d, rankby, col) ==
    [k \in 1..Len(d) |->
        Cardinality({j \in GroupOf(d, rankby, k) : d[j][col] > d[k][col]}) + 1]
rank(d, rankby, col) ==
    [k \in 1..Len(d) |->
        Cardinality({d[j][col] : j \in {x \in GroupOf(d, rankby, k) : d[x][col] > d[k][col]}}) + 1]

\* df[name] = column: the DataFrame with the column added (or replaced)
WithColumn(d, name, column) ==
    [k \in 1..Len(d) |->
        [c \in (DOMAIN d[k]) \cup {name} |-> IF c = name THEN column[k] ELSE d[k][c]]]

\* df.drop_duplicates(groupby): the first row of every group, in row order
RECURSIVE FirstOfGroups(_, _, _)
FirstOfGroups(d, keys, k) ==
    IF k > Len(d) THEN <<>>
    ELSE IF \E j \in 1..(k - 1) : SameGroup(d, keys, j, k)
    THEN FirstOfGroups(d, keys, k + 1)
    ELSE <<d[k]>> \o FirstOfGroups(d, keys, k + 1)

RECURSIVE LastOfGroups(_, _, _)
LastOfGroups(d, keys, k) ==
    IF k > Len(d) THEN <<>>
    ELSE IF \E j \in (k + 1)..Len(d) : SameGroup(d, keys, j, k)
    THEN LastOfGroups(d, keys, k + 1)
    ELSE <<d[k]>> \o LastOfGroups(d, keys, k + 1)

drop_duplicates_keep_last(d, keys) == LastOfGroups(d, keys, 1)
drop_duplicates(d, keys) == FirstOfGroups(d, keys, 1)

\* df[col] / subtotal(df, groupby[:-1], col)
perc_of_own_group(d, groupby, col) ==
    LET own == subtotal(d, groupby, col)
    IN  [k \in 1..Len(d) |-> Frac(d[k][col], own[k])]
perc(d, groupby, col) ==
    LET upper == subtotal(d, ButLast(groupby), col)
    IN  [k \in 1..Len(d) |-> Frac(d[k][col], upper[k])]

\* the five assignments of total_rank_perc, with prefix "p" and rankby, percby
\* left at their default groupby[:-1]
WithUpperSumOfOwnGroup(d, groupby, col) ==
    LET d1 == WithColumn(d, "p_sum", subtotal(d, groupby, col))
        d2 == WithColumn(d1, "p_rank", rank(d1, ButLast(groupby), "p_sum"))
        d3 == WithColumn(d2, "p_perc", perc(d2, groupby, col))
        d4 == WithColumn(d3, "p_upper_sum", subtotal(d3, groupby, col))
    IN  WithColumn(d4, "p_upper_perc",
                   [k \in 1..Len(d4) |-> Frac(d4[k]["p_sum"], d4[k]["p_upper_sum"])])
WithRankOfDetail(d, groupby, col) ==
    LET d1 == WithColumn(d, "p_sum", subtotal(d, groupby, col))
        d2 == WithColumn(d1, "p_rank", rank(d1, ButLast(groupby), col))
        d3 == WithColumn(d2, "p_perc", perc(d2, groupby, col))
        d4 == WithColumn(d3, "p_upper_sum", subtotal(d3, ButLast(groupby), col))
    IN  WithColumn(d4, "p_upper_perc",
                   [k \in 1..Len(d4) |-> Frac(d4[k]["p_sum"], d4[k]["p_upper_sum"])])
WithDerivedColumns(d, groupby, col) ==
    LET d1 == WithColumn(d, "p_sum", subtotal(d, groupby, col))
        d2 == WithColumn(d1, "p_rank", rank(d1, ButLast(groupby), "p_sum"))
        d3 == WithColumn(d2, "p_perc", perc(d2, groupby, col))
        d4 == WithColumn(d3, "p_upper_sum", subtotal(d3, ButLast(groupby), col))
    IN  WithColumn(d4, "p_upper_perc",
                   [k \in 1..Len(d4) |-> Frac(d4[k]["p_sum"], d4[k]["p_upper_sum"])])

RankFrame ==
    /\ UNCHANGED <<splitVars, callVars, histVars, rateVars, keyVars, fpVars, sweepVars, topVars, moreVars>>

\* rank(df, rankby, "v")
CallRank ==
    /\ apc = "start"
    /\ \E keys \in KeyLists :
           /\ akeys' = keys
           /\ aout' = rank(adf, keys, "v")
    /\ apc' = "rank"
    /\ adf' = adf
    /\ ain' = adf
    /\ RankFrame

\* subtotal(df, groupby, "v")
CallSubtotal ==
    /\ apc = "start"
    /\ \E keys \in KeyLists :
           /\ akeys' = keys
           /\ aout' = subtotal(adf, keys, "v")
    /\ apc' = "subtotal"
    /\ adf' = adf
    /\ ain' = adf
    /\ RankFrame

\* total_rank_perc(df, ["a", "b"], "v", "p", drop_duplicates=drop): the columns
\* are assigned on the caller's DataFrame itself
CallTotalRankPerc ==
    /\ apc = "start"
    /\ akeys' = <<"a", "b">>
    /\ ain' = adf
    /\ adf' = WithDerivedColumns(adf, <<"a", "b">>, "v")
    /\ \E drop \in BOOLEAN :
           /\ aout' = IF drop THEN drop_duplicates(adf', <<"a", "b">>) ELSE adf'
           /\ apc' = IF drop THEN "total_rank_perc_dedup" ELSE "total_rank_perc"
    /\ RankFrame

RankInit ==
    /\ SplitParked /\ CallParked /\ RateParked /\ KeyParked /\ FpParked
    /\ SweepParked /\ TopParked /\ MoreParked
    /\ adf \in UNION {[1..n -> BaseRows] : n \in 0..MaxRows} \cup {ScenarioRows}
    /\ ain = adf
    /\ akeys = <<>>
    /\ aout = <<>>
    /\ apc = "start"

RankNext ==
    \/ CallRank
    \/ CallSubtotal
    \/ CallTotalRankPerc

SpecRank == RankInit /\ [][RankNext]_vars

----------------------------------------------------------------------------
(* The API key in log records and in the echoed URL *)

\* the API keys tried: every non-empty string over two characters
KeyChars == {"k", "y"}
Keys == StringsUpTo(KeyChars, MaxKeyLen) \ {<<>>}

\* s[:n]
Prefix(s, n) == SubSeq(s, 1, Min(n, Len(s)))

\* logging.info / logging.debug under the level the root logger is set to
LogLevels == {"INFO", "DEBUG"}
Emitted(level, threshold, record) ==
    IF level = "INFO" \/ threshold = "DEBUG" THEN <<record>> ELSE <<>>

\* get_url with an API key: two records at level INFO
get_url_log(api_key, threshold) ==
    Emitted("INFO", threshold, <<"baseURL: ", "BASE_URL_API">>)
    \o Emitted("INFO", threshold, <<"APIKEY: ">> \o Prefix(api_key, KeyPrefixLen))

\* resp.url: the parameters of pars followed by those of more_pars
MorePars == {<<>>, <<"&", "includeDesc=", "True">>}
RequestUrl(api_key, more_pars) ==
    <<"BASE_URL_API", "?", "period=", "2020", "&", "subscription-key=">>
    \o api_key \o more_pars

\* re.sub("subscription-key=.*", "subscription-key=HIDDEN", url)
Sanitize(url) ==
    IF \E n \in 1..Len(url) : url[n] = "subscription-key="
    THEN LET n == CHOOSE x \in 1..Len(url) :
                      /\ url[x] = "subscription-key="
                      /\ \A y \in 1..(x - 1) : url[y] # "subscription-key="
         IN  SubSeq(url, 1, n) \o <<"HIDDEN">>
    ELSE url

\* str(kwp): the keyword arguments of getFinalData, with the key among them
\* when it was passed as subscription_key=...
KwpString(api_key, by_keyword) ==
    (IF by_keyword THEN <<"subscription_key: ">> \o api_key \o <<", ">> ELSE <<>>)
    \o <<"period: ", "2020", ", ", "partner2Code: ", "0">>

\* the calls whose output is looked at
KeyCalls ==
    [fn : {"get_url"}, echo_url : {FALSE}, more_pars : {<<>>}, by_keyword : {FALSE}]
    \cup [fn : {"get_data"}, echo_url : BOOLEAN, more_pars : MorePars, by_keyword : {FALSE}]
    \cup [fn : {"getFinalData"}, echo_url : {FALSE}, more_pars : {<<>>}, by_keyword : BOOLEAN]

\* the log records and printed lines of one call, in order
\* (getFinalData: one sub-period, answered at the first attempt)
KeyOutput(c, api_key, threshold) ==
    IF c.fn = "get_url" THEN get_url_log(api_key, threshold)
    ELSE IF c.fn = "get_data"
    THEN get_url_log(api_key, threshold)
         \o (IF c.echo_url THEN <<Sanitize(RequestUrl(api_key, c.more_pars))>> ELSE <<>>)
    ELSE Emitted("INFO", threshold, <<"Calling getFinalData for period ", "2020">>)
         \o Emitted("DEBUG", threshold,
                    <<"Call ">> \o KwpString(api_key, c.by_keyword) \o <<"False">>)
         \o Emitted("DEBUG", threshold,
                    <<"Calling comtradeapicall.getFinalData with ">>
                    \o KwpString(api_key, c.by_keyword))
         \o Emitted("DEBUG", threshold,
                    <<"Calling comtradeapicall.getFinalData with ">>
                    \o KwpString(api_key, c.by_keyword))
         \o Emitted("DEBUG", threshold, <<"Number of records fetched: ", "1">>)
         \o Emitted("DEBUG", threshold, <<"Number of record in temp: ", "1">>)

KeyFrame ==
    /\ UNCHANGED <<splitVars, callVars, histVars, rateVars, rankVars, fpVars, sweepVars, topVars, moreVars>>
    /\ UNCHANGED <<key, loglevel>>

KeyCall(c) ==
    /\ kpc = "start"
    /\ kcall' = c
    /\ klog' = KeyOutput(c, key, loglevel)
    /\ kpc' = "returned"
    /\ KeyFrame

KeyGetUrl == \E c \in KeyCalls : c.fn = "get_url" /\ KeyCall(c)
KeyGetData == \E c \in KeyCalls : c.fn = "get_data" /\ KeyCall(c)
KeyGetFinalData == \E c \in KeyCalls : c.fn = "getFinalData" /\ KeyCall(c)

KeyInit ==
    /\ SplitParked /\ CallParked /\ RateParked /\ RankParked /\ FpParked
    /\ SweepParked /\ TopParked /\ MoreParked
    /\ key \in Keys
    /\ loglevel \in LogLevels
    /\ kcall = NoKeyCall
    /\ klog = <<>>
    /\ kpc = "start"

KeyNext ==
    \/ KeyGetUrl
    \/ KeyGetData
    \/ KeyGetFinalData

SpecKey == KeyInit /\ [][KeyNext]_vars

----------------------------------------------------------------------------
(* The cache file a getFinalData sub-request addresses *)

\* keyword arguments as Python keeps them: name/value entries in the order
\* they were passed, no name twice
FpEntries ==
    [k : {"period"}, v : {"2020", "2021"}]
    \cup [k : {"reporterCode"}, v : {"49"}]
    \cup [k : {"partner2Code"}, v : {"0"}]
    \cup [k : {"cache"}, v : {"False"}]
    \cup [k : {"use_alternative"}, v : {"True"}]

HasKey(kwp, name) == \E n \in 1..Len(kwp) : kwp[n].k = name

FpKwargs ==
    {s \in UNION {[1..n -> FpEntries] : n \in 1..MaxKwargs} :
        /\ HasKey(s, "period")
        /\ \A m, n \in 1..Len(s) : m # n => s[m].k # s[n].k}

\* del kwp[name]
RECURSIVE DelKey(_, _)
DelKey(kwp, name) ==
    IF kwp = <<>> THEN <<>>
    ELSE IF kwp[1].k = name THEN DelKey(Tail(kwp), name)
    ELSE <<kwp[1]>> \o DelKey(Tail(kwp), name)

\* kwp.get(name, default)
GetKey(kwp, name, default) ==
    IF HasKey(kwp, name)
    THEN (CHOOSE e \in {kwp[n] : n \in 1..Len(kwp)} : e.k = name).v
    ELSE default

\* kwp[name] = value: in place when the name is there, at the end otherwise
SetKey(kwp, name, value) ==
    IF HasKey(kwp, name)
    THEN [n \in 1..Len(kwp) |-> IF kwp[n].k = name THEN [k |-> name, v |-> value] ELSE kwp[n]]
    ELSE Append(kwp, [k |-> name, v |-> value])

\* kwp once the flags of the wrapper were deleted and partner2Code defaulted
WithoutFlags(kwp) ==
    LET k1 == DelKey(DelKey(DelKey(DelKey(kwp, "cache"), "retry_if_empty"),
                            "remove_world"), "period_size")
    IN  IF HasKey(k1, "partner2Code") THEN k1 ELSE SetKey(k1, "partner2Code", "0")

\* str(kwp): the entries in dictionary order
RECURSIVE DictStr(_)
DictStr(kwp) ==
    IF kwp = <<>> THEN <<>>
    ELSE <<kwp[1].k, kwp[1].v>> \o DictStr(Tail(kwp))

\* f"{str(kwp)}{use_alternative}"
CallString(kwp, use_alternative) == DictStr(kwp) \o <<use_alternative>>

\* hashlib.md5(...).hexdigest(): equal for equal strings; taken to differ for
\* different strings
Md5(s) == s

\* the cache file of the sub-request for subperiod
CacheFile(kwargs, subperiod) ==
    LET kwp == SetKey(WithoutFlags(kwargs), "period", subperiod)
    IN  <<"CACHE_DIR">> \o Md5(CallString(kwp, GetKey(kwargs, "use_alternative", "False")))

FpFrame ==
    /\ UNCHANGED <<splitVars, callVars, histVars, rateVars, rankVars, keyVars,
                   sweepVars, topVars, moreVars>>

\* getFinalData(**kwargs) up to cache_file of its only sub-period
FpRequest(kwargs) ==
    /\ fkw' = Append(fkw, kwargs)
    /\ ffp' = Append(ffp, CacheFile(kwargs, GetKey(kwargs, "period", "")))
    /\ fpc' = fpc + 1
    /\ FpFrame

FpFirst == fpc = 0 /\ \E kwargs \in FpKwargs : FpRequest(kwargs)
FpSecond == fpc = 1 /\ \E kwargs \in FpKwargs : FpRequest(kwargs)

FpInit ==
    /\ SplitParked /\ CallParked /\ RateParked /\ RankParked /\ KeyParked
    /\ SweepParked /\ TopParked /\ MoreParked
    /\ fkw = <<>>
    /\ ffp = <<>>
    /\ fpc = 0

FpNext ==
    \/ FpFirst
    \/ FpSecond

SpecFp == FpInit /\ [][FpNext]_vars

-----------------------------------------------------------------------------
(* clean_cache, run by init, against the files of the cache directory *)

FileNames == 1..MaxFiles
Absent == [present |-> FALSE, age |-> 0, content |-> "", accessed |-> FALSE]
File(age, content, accessed) ==
    [present |-> TRUE, age |-> age, content |-> content, accessed |-> accessed]

\* ages (days since the modification time) a file of the directory starts with
StartAges == {0, CACHE_VALID_DAYS - 1, CACHE_VALID_DAYS, CACHE_VALID_DAYS + 1}
StartFiles ==
    {Absent} \cup {File(a, "old", acc) : a \in StartAges, acc \in BOOLEAN}
OldestAge == CACHE_VALID_DAYS + MaxOver

\* modification_time < cutoff_time, cutoff_time = now - CACHE_VALID_DAYS days
BeforeCutoff(file) == file.age > CACHE_VALID_DAYS
AtOrBeforeCutoff(file) == file.age >= CACHE_VALID_DAYS

clean_cache_at_cutoff(directory) ==
    [filename \in DOMAIN directory |->
        IF directory[filename].present /\ AtOrBeforeCutoff(directory[filename])
        THEN Absent ELSE directory[filename]]

\* for filename in os.listdir(directory): os.remove if older than the cutoff
clean_cache(directory) ==
    [filename \in DOMAIN directory |->
        IF directory[filename].present /\ BeforeCutoff(directory[filename])
        THEN Absent ELSE directory[filename]]

SweepFrame ==
    UNCHANGED <<splitVars, callVars, histVars, rateVars, rankVars, keyVars,
                fpVars, topVars, moreVars>>

\* init(api_key, force_init): returns at once when INIT_DONE and not forced;
\* otherwise sets INIT_DONE, loads the code books (a download may raise) and
\* ends with clean_cache()
init(force_init) ==
    /\ wpc # "parked"
    /\ force_init => forced < MaxForced
    /\ forced' = IF force_init THEN forced + 1 ELSE forced
    /\ IF INIT_DONE /\ ~force_init
       THEN /\ wpc' = "init_skipped"
            /\ UNCHANGED <<cdir, INIT_DONE, sweeps>>
       ELSE /\ INIT_DONE' = TRUE
            /\ \/ /\ wpc' = "init_raised"
                  /\ UNCHANGED <<cdir, sweeps>>
               \/ /\ wpc' = "init_done"
                  /\ cdir' = clean_cache(cdir)
                  /\ sweeps' = sweeps + 1
    /\ SweepFrame

CallInit == \E force_init \in BOOLEAN : init(force_init)

\* a month passes: every file gets older
SweepDaySteps == {CACHE_VALID_DAYS \div 2, CACHE_VALID_DAYS \div 2 + 1}
DaysPass ==
    /\ wpc # "parked"
    /\ \E d \in SweepDaySteps :
          /\ \A f \in FileNames : cdir[f].present => cdir[f].age + d <= OldestAge
          /\ cdir' = [f \in FileNames |->
                        IF cdir[f].present
                        THEN [cdir[f] EXCEPT !.age = @ + d] ELSE cdir[f]]
    /\ wpc' = "days"
    /\ UNCHANGED <<INIT_DONE, sweeps, forced>>
    /\ SweepFrame

\* pd.read_pickle of a cache file: an access, the modification time stays
ReadFile ==
    /\ wpc # "parked"
    /\ \E f \in FileNames :
          /\ cdir[f].present
          /\ cdir' = [cdir EXCEPT ![f].accessed = TRUE]
    /\ wpc' = "read"
    /\ UNCHANGED <<INIT_DONE, sweeps, forced>>
    /\ SweepFrame

\* to_pickle of a fetched dataset: the file is (re)written now
WritePickle ==
    /\ wpc # "parked"
    /\ \E f \in FileNames : cdir' = [cdir EXCEPT ![f] = File(0, "new", FALSE)]
    /\ wpc' = "write"
    /\ UNCHANGED <<INIT_DONE, sweeps, forced>>
    /\ SweepFrame

SweepInit ==
    /\ SplitParked /\ CallParked /\ RateParked /\ RankParked /\ KeyParked /\ FpParked
    /\ TopParked /\ MoreParked
    /\ cdir \in [FileNames -> StartFiles]
    /\ INIT_DONE = FALSE
    /\ sweeps = 0
    /\ forced = 0
    /\ wpc = "start"

SweepNext ==
    \/ CallInit
    \/ DaysPass
    \/ ReadFile
    \/ WritePickle

SpecSweep == SweepInit /\ [][SweepNext]_vars

-----------------------------------------------------------------------------
(* comtrade.top_commodities *)

\* a row of the dataset get_data returns, with its decoded and formatted columns
TopRow(flow, cmd, partner, value) ==
    [reporterDesc |-> "China", refYear |-> 2020,
     flowCode |-> flow, flowDesc |-> <<"flow", flow>>,
     cmdCode |-> cmd, cmdDesc |-> <<"HS", cmd>>,
     partnerCode |-> partner, partnerDesc |-> <<"country", partner>>,
     primaryValue |-> value, primaryValueFormated |-> <<value, ".00">>]
TopRows ==
    {TopRow(flow, cmd, partner, value) :
        flow \in {"M", "X"}, cmd \in {1, 2}, partner \in {1, 2}, value \in {10, 50}}
\* what get_data returns: None, or a dataset with at least one row
TopDatasets ==
    {None} \cup {DataFrame(d) : d \in UNION {[1..n -> TopRows] : n \in 1..MaxRows}}
TopArgs == [rank_filter : 1..MaxRank, partner_first : BOOLEAN, return_data : BOOLEAN]

PERC_CMD_IN_PARTNER == "perc_cmd_for_partner"
PERC_PARTNER_IN_CMD == "perc_partner_for_cmd"

\* the columns of a dataset with at least one row
Columns(d) == DOMAIN d[1]

\* ascending order of a sort column's values (flow codes sort as strings)
SortKey(row, col) ==
    IF col = "flowCode" THEN (IF row[col] = "M" THEN 1 ELSE 2) ELSE row[col]

RECURSIVE LexLess(_, _, _)
LexLess(r1, r2, cols) ==
    /\ cols # <<>>
    /\ \/ SortKey(r1, cols[1]) < SortKey(r2, cols[1])
       \/ /\ SortKey(r1, cols[1]) = SortKey(r2, cols[1])
          /\ LexLess(r1, r2, Tail(cols))

\* df.sort_values(sort_list, ascending=[True, ...]): equal keys keep their order
sort_values(d, sort_list) ==
    LET before(j, k) ==
            \/ LexLess(d[j], d[k], sort_list)
            \/ ~LexLess(d[k], d[j], sort_list) /\ j < k
        position(k) == Cardinality({j \in 1..Len(d) : before(j, k)}) + 1
    IN  [p \in 1..Len(d) |-> d[CHOOSE k \in 1..Len(d) : position(k) = p]]

\* df[cols]: the listed columns of every row
SelectColumns(d, cols) ==
    [k \in 1..Len(d) |-> [c \in cols |-> d[k][c]]]

KeyError == [kind |-> "KeyError", rows |-> <<>>, data |-> <<>>]
Returned(pco) == [kind |-> "DataFrame", rows |-> pco, data |-> <<>>]
ReturnedTuple(pco, d) == [kind |-> "tuple", rows |-> pco, data |-> d]
ReturnedNone == [kind |-> "None", rows |-> <<>>, data |-> <<>>]

\* the columns top_commodities adds to df, in the order of the source
TopBase == <<"reporterDesc", "refYear", "flowCode">>
AddSumCmd(d) ==
    WithColumn(d, "sum_cmd", subtotal(d, TopBase \o <<"cmdCode">>, "primaryValue"))
AddSumPartner(d) ==
    WithColumn(d, "sum_partner", subtotal(d, TopBase \o <<"partnerCode">>, "primaryValue"))
AddRankCmd(d) ==
    WithColumn(d, "rank_cmd", rank(d, TopBase, "sum_cmd"))
AddPercPartnerInCmd(d) ==
    WithColumn(d, PERC_PARTNER_IN_CMD,
               [k \in 1..Len(d) |-> Frac(d[k].primaryValue, d[k].sum_cmd)])
AddPercCmdInPartner(d) ==
    WithColumn(d, PERC_CMD_IN_PARTNER,
               [k \in 1..Len(d) |-> Frac(d[k].primaryValue, d[k].sum_partner)])
AddRankCmdPartner(d) ==
    WithColumn(d, "rank_cmd_partner", rank(d, TopBase \o <<"cmdCode">>, "primaryValue"))
AddRankPartner(d) ==
    WithColumn(d, "rank_partner", rank(d, TopBase, "sum_partner"))
\* (each assignment is made once, on the frame the one before it left)
TopWithColumns(d) ==
    CHOOSE d7 \in
        {AddRankPartner(d6) : d6 \in
        {AddRankCmdPartner(d5) : d5 \in
        {AddPercCmdInPartner(d4) : d4 \in
        {AddPercPartnerInCmd(d3) : d3 \in
        {AddRankCmd(d2) : d2 \in
        {AddSumPartner(d1) : d1 \in {AddSumCmd(d)}}}}}}} : TRUE

TopRankColumns(partner_first) ==
    IF partner_first THEN <<"rank_partner", "rank_partner_cmd">>
    ELSE <<"rank_cmd", "rank_cmd_partner">>

TopShowCols(partner_first) ==
    IF partner_first
    THEN {"reporterDesc", "refYear", "flowCode", "flowDesc", "rank_partner",
          "partnerDesc", "rank_partner_cmd", "rank_cmd", "cmdCode", "cmdDesc",
          "primaryValueFormated", PERC_CMD_IN_PARTNER, PERC_PARTNER_IN_CMD}
    ELSE {"reporterDesc", "refYear", "flowCode", "flowDesc", "rank_cmd", "cmdCode",
          "cmdDesc", "rank_cmd_partner", "rank_partner", "partnerDesc",
          "primaryValueFormated", PERC_CMD_IN_PARTNER, PERC_PARTNER_IN_CMD}

\* pco = df[rank_cut].sort_values(sort_list, ascending=sort_order)[show_cols]
TopCut(d, rank_filter, partner_first, return_data) ==
    LET ranks == TopRankColumns(partner_first)
        sort_list == <<"refYear", "flowCode">> \o ranks
        show_cols == TopShowCols(partner_first)
    IN  IF ~({ranks[1], ranks[2]} \cup show_cols \subseteq Columns(d))
        THEN \* df['rank_partner_cmd']: no such column
             KeyError
        ELSE CHOOSE r \in
                 {IF return_data THEN ReturnedTuple(pco, d) ELSE Returned(pco) :
                     pco \in {SelectColumns(sort_values(cut, sort_list), show_cols) :
                         cut \in {SelectSeq(d, LAMBDA row :
                                       /\ row[ranks[1]] <= rank_filter
                                       /\ row[ranks[2]] <= rank_filter)}}} : TRUE

\* top_commodities after get_data returned the dataset got
top_commodities(got, rank_filter, partner_first, return_data) ==
    IF got = None THEN ReturnedNone
    ELSE CHOOSE r \in {TopCut(d, rank_filter, partner_first, return_data) :
                           d \in {TopWithColumns(got.rows)}} : TRUE

TopFrame ==
    UNCHANGED <<splitVars, callVars, histVars, rateVars, rankVars, keyVars,
                fpVars, sweepVars, moreVars>>

CallTopCommodities ==
    /\ tpc = "start"
    /\ tout' = top_commodities(tdf, targs.rank_filter, targs.partner_first,
                               targs.return_data)
    /\ tpc' = IF tout'.kind = "KeyError" THEN "raised" ELSE "returned"
    /\ UNCHANGED <<tdf, targs>>
    /\ TopFrame

TopInit ==
    /\ SplitParked /\ CallParked /\ RateParked /\ RankParked /\ KeyParked /\ FpParked
    /\ SweepParked /\ MoreParked
    /\ tdf \in TopDatasets
    /\ targs \in TopArgs
    /\ tout = ReturnedNone
    /\ tpc = "start"

TopNext ==
    \/ CallTopCommodities

SpecTop == TopInit /\ [][TopNext]_vars

----------------------------------------------------------------------------
(* Two processes in getFinalData at the same cache file *)

Procs == 1..MaxProcs
Other(p) == Procs \ {p}

\* the cache file: absent; opened for writing and still empty; or written
NoFile == [state |-> "absent", data |-> Unbound, age |-> 0]
OpenedFile == [state |-> "partial", data |-> Unbound, age |-> 0]
WrittenFile(d, age) == [state |-> "full", data |-> d, age |-> age]

RaceRows == DataFrame(<<Row(WorldCode, Years[1])>>)
RaceDatasets == {RaceRows, DataFrame(<<>>)}

\* the file the processes find: none, or one written earlier, fresh or expired
RaceFiles ==
    {NoFile} \cup {WrittenFile(d, a) : d \in RaceDatasets,
                                         a \in {0, CACHE_VALID_DAYS + 1}}

\* os.path.exists(cache_file)
ExistsAlways(f) == TRUE
Exists(f) == f.state # "absent"

\* the statements of the loop body that touch the file, one step each
RaceStatements == {"exists", "getmtime", "load", "remove_expired", "size",
                   "fetch", "open_wb", "dump", "returned"}

RaceFrame ==
    UNCHANGED <<splitVars, callVars, histVars, rateVars, rankVars, keyVars,
                fpVars, sweepVars, topVars, gdVars, aggVars>>

\* process p goes to statement s
GoTo(p, s) == qpc' = [qpc EXCEPT ![p] = s]
\* process p raises e at the statement it is at
RaiseAt(p, e) == qerr' = [qerr EXCEPT ![p] = e] /\ UNCHANGED qpc
\* process p changed the file: the others see another file than they checked
Touch(p) == qtouched' = [o \in Procs |-> IF o = p THEN qtouched[o] ELSE TRUE]

Running(p, s) == qpc[p] = s /\ qerr[p] = "none"

\* if cache and os.path.exists(cache_file)
RaceExists(p) ==
    /\ Running(p, "exists")
    /\ IF Exists(qfile) THEN GoTo(p, "getmtime") ELSE GoTo(p, "fetch")
    /\ qtouched' = [qtouched EXCEPT ![p] = FALSE]
    /\ UNCHANGED <<qfile, qtemp, qused, qerr, qretry>>
    /\ RaceFrame

\* os.path.getmtime(cache_file); days_since_modification <= CACHE_VALID_DAYS
RaceGetmtime(p) ==
    /\ Running(p, "getmtime")
    /\ IF qfile.state = "absent"
       THEN RaiseAt(p, "FileNotFoundError")
       ELSE /\ GoTo(p, IF CacheValid(qfile.age) THEN "load" ELSE "remove_expired")
            /\ UNCHANGED qerr
    /\ UNCHANGED <<qfile, qtemp, qused, qtouched, qretry>>
    /\ RaceFrame

\* with open(cache_file, "rb") as f: temp = pickle.load(f); used_cache = True
RaceLoad(p) ==
    /\ Running(p, "load")
    /\ IF qfile.state = "absent"
       THEN RaiseAt(p, "FileNotFoundError") /\ UNCHANGED <<qtemp, qused>>
       ELSE IF qfile.state = "partial"
       THEN RaiseAt(p, "EOFError") /\ UNCHANGED <<qtemp, qused>>
       ELSE /\ qtemp' = [qtemp EXCEPT ![p] = qfile.data]
            /\ qused' = [qused EXCEPT ![p] = TRUE]
            /\ GoTo(p, "size")
            /\ UNCHANGED qerr
    /\ UNCHANGED <<qfile, qtouched, qretry>>
    /\ RaceFrame

\* else: os.remove(cache_file); used_cache = False
RaceRemoveExpired(p) ==
    /\ Running(p, "remove_expired")
    /\ IF qfile.state = "absent"
       THEN RaiseAt(p, "FileNotFoundError") /\ UNCHANGED <<qfile, qtouched>>
       ELSE /\ qfile' = NoFile
            /\ Touch(p)
            /\ GoTo(p, "size")
            /\ UNCHANGED qerr
    /\ UNCHANGED <<qtemp, qused, qretry>>
    /\ RaceFrame

\* if temp.size == 0 and retry_if_empty: os.remove(cache_file); used_cache = False
\* then the cached dataset is the sub-period's, or the fetch starts
RaceSize(p) ==
    /\ Running(p, "size")
    /\ IF qtemp[p] = Unbound
       THEN RaiseAt(p, "UnboundLocalError") /\ UNCHANGED <<qfile, qtouched, qused>>
       ELSE IF RetryEmpty(qtemp[p], qretry[p])
       THEN IF qfile.state = "absent"
            THEN RaiseAt(p, "FileNotFoundError") /\ UNCHANGED <<qfile, qtouched, qused>>
            ELSE /\ qfile' = NoFile
                 /\ Touch(p)
                 /\ qused' = [qused EXCEPT ![p] = FALSE]
                 /\ GoTo(p, "fetch")
                 /\ UNCHANGED qerr
       ELSE /\ GoTo(p, IF qused[p] THEN "returned" ELSE "fetch")
            /\ UNCHANGED <<qfile, qtouched, qused, qerr>>
    /\ UNCHANGED <<qtemp, qretry>>
    /\ RaceFrame

\* if not used_cache: the remote calls; they end with a dataset or raise
RaceFetch(p) ==
    /\ Running(p, "fetch")
    /\ \/ \E d \in RaceDatasets :
             /\ qtemp' = [qtemp EXCEPT ![p] = d]
             /\ GoTo(p, "open_wb")
             /\ UNCHANGED qerr
       \/ RaiseAt(p, "IOError") /\ UNCHANGED qtemp
    /\ UNCHANGED <<qfile, qused, qtouched, qretry>>
    /\ RaceFrame

\* with open(cache_file, "wb") as f: the file is created or truncated
RaceOpen(p) ==
    /\ Running(p, "open_wb")
    /\ qfile' = OpenedFile
    /\ Touch(p)
    /\ GoTo(p, "dump")
    /\ UNCHANGED <<qtemp, qused, qerr, qretry>>
    /\ RaceFrame

\* pickle.dump(temp, f): written into the open file; a file another process
\* removed meanwhile stays removed
RaceDump(p) ==
    /\ Running(p, "dump")
    /\ qfile' = IF qfile.state = "absent" THEN NoFile ELSE WrittenFile(qtemp[p], 0)
    /\ Touch(p)
    /\ GoTo(p, "returned")
    /\ UNCHANGED <<qtemp, qused, qerr, qretry>>
    /\ RaceFrame

\* temp before the loop body runs: unbound in the first sub-period, else the
\* dataset of the sub-period before
RaceTemps == {Unbound} \cup RaceDatasets

RaceInit ==
    /\ SplitParked /\ CallParked /\ RateParked /\ RankParked /\ KeyParked /\ FpParked
    /\ SweepParked /\ TopParked /\ GdParked /\ AggParked
    /\ qfile \in RaceFiles
    /\ qpc = [p \in Procs |-> "exists"]
    /\ qtemp \in [Procs -> RaceTemps]
    /\ qused = [p \in Procs |-> FALSE]
    /\ qtouched = [p \in Procs |-> FALSE]
    /\ qerr = [p \in Procs |-> "none"]
    /\ qretry \in [Procs -> BOOLEAN]

StepExists == \E p \in Procs : RaceExists(p)
StepGetmtime == \E p \in Procs : RaceGetmtime(p)
StepLoad == \E p \in Procs : RaceLoad(p)
StepRemoveExpired == \E p \in Procs : RaceRemoveExpired(p)
StepSize == \E p \in Procs : RaceSize(p)
StepFetch == \E p \in Procs : RaceFetch(p)
StepOpen == \E p \in Procs : RaceOpen(p)
StepDump == \E p \in Procs : RaceDump(p)

RaceNext ==
    \/ StepExists
    \/ StepGetmtime
    \/ StepLoad
    \/ StepRemoveExpired
    \/ StepSize
    \/ StepFetch
    \/ StepOpen
    \/ StepDump

SpecRace == RaceInit /\ [][RaceNext]_vars

----------------------------------------------------------------------------
(* get_data and its cache *)

\* motCode, qtyUnitCodeFilter left at their default None
NoFilter == -2

\* a row of the service: period, mode of transport, quantity unit, customs code
GdRow(p, mot, qty) == [period |-> p, motCode |-> mot, qtyUnitCode |-> qty, customsCode |-> "C00"]

\* what the service holds for a period: the total over the modes of transport
\* (motCode 0) and rows by mode
ServiceRows(p) == <<GdRow(p, 0, 1), GdRow(p, 1, 1), GdRow(p, 1, 2)>>

GdPeriods == {"2020", "2021"}

\* more_pars: nothing, or one further request parameter
NoMorePars == [k |-> "none", v |-> "none"]
MoreParsChoices ==
    {NoMorePars, [k |-> "motCode", v |-> "1"], [k |-> "period", v |-> "2021"]}

\* the arguments of a get_data call that vary here; the others stay at their
\* defaults
GdArgs ==
    [period : GdPeriods, motCode : {NoFilter, -1, 0, 1},
     qtyUnitCodeFilter : {NoFilter, 1}, more_pars : MoreParsChoices, cache : BOOLEAN]

\* pars, as hashed: neither more_pars nor motCode nor qtyUnitCodeFilter is in it
Pars(a) ==
    [reporterCode |-> "49", period |-> a.period, cmdCode |-> "TOTAL",
     flowCode |-> "M,X", customsCode |-> "C00"]

\* hash of f"{base_url}{str(pars)}": equal for equal strings, taken to differ
\* for different ones
GdHash(a) == [base_url |-> "C/A/HS", pars |-> Pars(a)]

\* {**pars, **more_pars}: an entry of more_pars replaces the one of pars
RequestParams(a) ==
    [period |-> IF a.more_pars.k = "period" THEN a.more_pars.v ELSE a.period,
     motCode |-> IF a.more_pars.k = "motCode" THEN 1 ELSE NoFilter]

\* json.loads(resp.content)["data"] of a 200 response to the request
ServiceData(params) ==
    LET keep(r) == params.motCode = NoFilter \/ r.motCode = params.motCode
    IN  SelectSeq(ServiceRows(params.period), keep)

\* the filters applied to the fetched rows
FilterRows(rows, a) ==
    LET qty(r) == a.qtyUnitCodeFilter = NoFilter \/ r.qtyUnitCode = a.qtyUnitCodeFilter
        customs(r) == r.customsCode = "C00"
        mot(r) == CASE a.motCode = NoFilter -> TRUE
                    [] a.motCode = -1 -> r.motCode # 0
                    [] OTHER -> r.motCode = a.motCode
    IN  SelectSeq(SelectSeq(SelectSeq(rows, qty), customs), mot)

\* what a fetch answered with status 200 returns
Fetched(a) ==
    LET results == ServiceData(RequestParams(a))
    IN  IF Len(results) = 0 THEN None ELSE DataFrame(FilterRows(results, a))

GdFrame ==
    /\ UNCHANGED <<splitVars, callVars, histVars, rateVars, rankVars, keyVars,
                   fpVars, sweepVars, topVars, raceVars, aggVars>>

GdReturn(a, d, hit) ==
    /\ gargs' = Append(gargs, a)
    /\ gout' = Append(gout, [df |-> d, hit |-> hit])
    /\ gpc' = gpc + 1

\* get_data(**a); ok tells whether the service answers with status 200
get_data(a, ok) ==
    LET cache_file == GdHash(a)
        found == a.cache /\ cache_file \in DOMAIN gcache
    IN  IF found /\ CacheValid(gcache[cache_file].age)
        THEN /\ GdReturn(a, gcache[cache_file].data, TRUE)
             /\ gcache' = gcache
        ELSE LET c1 == IF found THEN RemoveFile(gcache, cache_file) ELSE gcache
                 d == IF ok THEN Fetched(a) ELSE None
             IN  /\ GdReturn(a, d, FALSE)
                 /\ gcache' = IF d # None /\ a.cache
                              THEN WriteFile(c1, cache_file, d)
                              ELSE c1

GdCall ==
    /\ gpc \in 0..(MaxCalls - 1)
    /\ \E a \in GdArgs, ok \in BOOLEAN : get_data(a, ok)
    /\ GdFrame

\* days pass between two calls
GdTick ==
    /\ gpc \in 1..(MaxCalls - 1)
    /\ \E d \in DaySteps :
          gcache' = [f \in DOMAIN gcache |-> [gcache[f] EXCEPT !.age = Older(@, d)]]
    /\ gcache' # gcache
    /\ UNCHANGED <<gargs, gout, gpc>>
    /\ GdFrame

GdInit ==
    /\ SplitParked /\ CallParked /\ RateParked /\ RankParked /\ KeyParked /\ FpParked
    /\ SweepParked /\ TopParked /\ RaceParked /\ AggParked
    /\ gcache = EmptyCache
    /\ gargs = <<>>
    /\ gout = <<>>
    /\ gpc = 0

GdNext ==
    \/ GdCall
    \/ GdTick

SpecGd == GdInit /\ [][GdNext]_vars

----------------------------------------------------------------------------
(* checkAggregateValues *)

\* hierarchical codes: strings of one to MaxCodeLen digits
HDigits == {"0", "1"}
HCodes == UNION {[1..n -> HDigits] : n \in 1..MaxCodeLen}

\* the digit a character stands for
Ord(ch) == CHOOSE n \in 0..9 : Digit(n) = ch

\* s < t as Python compares strings
RECURSIVE StrLess(_, _)
StrLess(s, t) ==
    IF Len(t) = 0 THEN FALSE
    ELSE IF Len(s) = 0 THEN TRUE
    ELSE IF s[1] # t[1] THEN Ord(s[1]) < Ord(t[1])
    ELSE StrLess(Tail(s), Tail(t))

\* the hcode column of the DataFrames passed in: at most MaxRows rows under
\* the default index, sorted ascending, codes possibly repeated
SortedCodeColumns ==
    {c \in UNION {[1..n -> HCodes] : n \in 0..MaxRows} :
        \A k \in 1..(Len(c) - 1) : c[k] = c[k + 1] \/ StrLess(c[k], c[k + 1])}

\* currentCode.startswith(lastCode)
startswith(s, prefix) ==
    Len(prefix) <= Len(s) /\ SubSeq(s, 1, Len(prefix)) = prefix

\* the aggregate column before anything was written to it: no value in any row
Unset(n) == [k \in 1..n |-> "NaN"]

\* df.loc[label, aggregate_column] = value
SetFlag(flags, at, value) == [flags EXCEPT ![at] = value]

\* the loop over df.iterrows() from row k on; rows are counted from 1, so
\* lastIndex 0 of the code is row 1 here
RECURSIVE AggregateLoop(_, _, _, _, _)
AggregateLoop(codes, flags, k, lastCode, lastIndex) ==
    IF k > Len(codes) THEN flags
    ELSE LET currentCode == codes[k]
             f1 == IF currentCode # lastCode /\ startswith(currentCode, lastCode)
                   THEN SetFlag(flags, lastIndex, "True")
                   ELSE IF currentCode = lastCode
                   THEN SetFlag(flags, k, flags[lastIndex])
                   ELSE SetFlag(flags, lastIndex, "False")
         IN  AggregateLoop(codes, f1, k + 1, currentCode, k)

\* checkAggregateValues(df, hcode_column): the aggregate column of the result
checkAggregateValues(codes) ==
    AggregateLoop(codes, Unset(Len(codes)), 1, <<"-", "-", "-">>, 1)

AggFrame ==
    /\ UNCHANGED <<splitVars, callVars, histVars, rateVars, rankVars, keyVars,
                   fpVars, sweepVars, topVars, raceVars, gdVars>>

AggCall ==
    /\ hpc = "start"
    /\ hflags' = checkAggregateValues(hcodes)
    /\ hpc' = "returned"
    /\ UNCHANGED hcodes
    /\ AggFrame

AggInit ==
    /\ SplitParked /\ CallParked /\ RateParked /\ RankParked /\ KeyParked /\ FpParked
    /\ SweepParked /\ TopParked /\ RaceParked /\ GdParked
    /\ hcodes \in SortedCodeColumns
    /\ hflags = Unset(Len(hcodes))
    /\ hpc = "start"

AggNext ==
    \/ AggCall

SpecAgg == AggInit /\ [][AggNext]_vars

----------------------------------------------------------------------------
(* Claims about split_period *)

\* the number of periods of a comma-separated string: its commas plus one
NumPeriods(s) == Cardinality({k \in 1..Len(s) : s[k] = Comma}) + 1

CeilDiv(a, b) == (a + b - 1) \div b

\* C1: split_period(period, N) returns exactly ceil(L/N) groups, each the
\* comma-join of at least one and at most N periods, and joining the groups
\* with commas gives back the input string; the thirteen years 2018..2030
\* with N = 12 give the first twelve years and then 2030 alone.
C1_SplitPeriodGroups ==
    spc = "returned" =>
        /\ Len(period_list) = CeilDiv(NumPeriods(period), max_periods)
        /\ \A k \in 1..Len(period_list) :
               NumPeriods(period_list[k]) \in 1..max_periods
        /\ StrJoin(period_list) = period
        /\ (period = ScenarioPeriod /\ max_periods = 12) =>
               period_list = <<StrJoin(SubSeq(ScenarioYears, 1, 12)), YearStr(2030)>>

\* the scenario has been split, and some shorter string ends in a partial group
C1_Witness ==
    /\ spc = "returned"
    /\ period = ScenarioPeriod
    /\ Len(period_list) = 2
    /\ NumPeriods(period_list[2]) < max_periods

----------------------------------------------------------------------------
(* Claims about getFinalData *)

\* the call at hand repeats the previous call, which fetched every sub-period
\* with one remote call each, and comes within the validity window after it
RepeatsFreshCall ==
    /\ pc # "idle"
    /\ ncalls >= 2
    /\ kw = prev.kw
    /\ kw.cache
    /\ prev.status = "done"
    /\ prev.onePerSub
    /\ gap <= CACHE_VALID_DAYS

ServedFromCache ==
    /\ calls = 0
    /\ pc # "raised"
    /\ pc = "done" => result = prev.result

C3_ExpiredEntryRefetched ==
    expired =>
        /\ Fingerprint(kw, subperiods[IF pc = "lookup" THEN i - 1 ELSE i]) \notin DOMAIN cache
           \/ attempts >= 1
        /\ error \notin {"UnboundLocalError", "FileNotFoundError"}
        /\ pc \in {"lookup", "done"} => attempts >= 1

StrictlyIncreasing(seq) == \A k \in 1..(Len(seq) - 1) : seq[k] < seq[k + 1]

C5_NoPartialResult ==
    /\ pc = "raised" => result = NoResult
    /\ pc = "done" =>
           /\ result # NoResult
           /\ Len(parts) = Len(subperiods)
           /\ \A k \in 1..Len(parts) : parts[k].kind = "DataFrame"
    /\ pc \notin {"done", "idle"} => result = NoResult

\* the second sub-period failed after the first had contributed rows
C5_Witness ==
    /\ pc = "raised"
    /\ error = "IOError"
    /\ i = 2
    /\ Len(df) > 0
    /\ result = NoResult

RECURSIVE Flatten(_)
Flatten(ps) == IF Len(ps) = 0 THEN <<>> ELSE ps[1].rows \o Flatten(Tail(ps))

RECURSIVE SumLen(_)
SumLen(ps) == IF Len(ps) = 0 THEN 0 ELSE Len(ps[1].rows) + SumLen(Tail(ps))

RemovalApplies == kw.remove_world /\ kw.partnerCode = NoPartner

\* C7: the assembled dataset is the datasets of the sub-periods one after the
\* other, in the order of the sub-periods and with each one's rows in their
\* order; when no world-row removal applies this is the returned dataset and
\* its row count is the sum of the sub-periods' row counts.
C7_AssemblyOrder ==
    /\ pc # "idle" =>
           /\ df = Flatten(parts)
           /\ \A k \in 1..Len(parts) : \A r \in 1..Len(parts[k].rows) :
                  parts[k].rows[r].period = subperiods[k]
    /\ (pc = "done" /\ ~RemovalApplies) =>
           /\ result.rows = Flatten(parts)
           /\ Len(result.rows) = SumLen(parts)

\* two sub-periods, both with rows, were assembled
C7_Witness ==
    /\ pc = "done"
    /\ ~RemovalApplies
    /\ Len(parts) = 2
    /\ Len(parts[1].rows) = 3
    /\ Len(parts[2].rows) = 3
    /\ Len(result.rows) = 6

RECURSIVE WithoutWorld(_)
WithoutWorld(rows) ==
    IF Len(rows) = 0 THEN <<>>
    ELSE IF rows[1].partnerCode = WorldCode THEN WithoutWorld(Tail(rows))
    ELSE <<rows[1]>> \o WithoutWorld(Tail(rows))

PartnerCodes(rows) == [k \in 1..Len(rows) |-> rows[k].partnerCode]

\* C8: the rows with partnerCode 0 are dropped exactly when remove_world is
\* true and partnerCode was left None; then the other rows are kept in order
\* (partners 226, 0, 620 leave 226, 620), else the dataset is returned whole.
C8_WorldRowRemoval ==
    pc = "done" =>
        /\ RemovalApplies => result.rows = WithoutWorld(df)
        /\ ~RemovalApplies => result.rows = df
        /\ (RemovalApplies /\ PartnerCodes(df) = <<226, WorldCode, 620>>) =>
               PartnerCodes(result.rows) = <<226, 620>>

C8_Witness ==
    /\ pc = "done"
    /\ RemovalApplies
    /\ PartnerCodes(df) = <<226, WorldCode, 620>>
    /\ PartnerCodes(result.rows) = <<226, 620>>

\* C17: getFinalData called without a period, or with an empty period
\* string, raises before any remote call is issued: it never gets to a cache
\* lookup or a remote call, and it does not return a dataset.
C17_EmptyPeriodIsError ==
    (pc # "idle" /\ kw.period \in {NoPeriod, EmptyString}) =>
        /\ pc = "raised"
        /\ error = "ValueError"
        /\ calls = 0

\* the lookup at hand finds an entry inside the validity window whose dataset
\* is empty
AtValidEmptyEntry ==
    /\ pc = "lookup"
    /\ kw.cache
    /\ Fingerprint(kw, subperiods[i]) \in DOMAIN cache
    /\ cache[Fingerprint(kw, subperiods[i])].age <= CACHE_VALID_DAYS
    /\ Len(cache[Fingerprint(kw, subperiods[i])].data.rows) = 0

\* C18: a lookup that finds a valid entry with an empty dataset deletes the
\* entry and goes on to the remote call when retry_if_empty is true; when it is
\* false it serves the empty dataset as the sub-period's result and issues no
\* remote call.
C18_EmptyCachedEntry ==
    [][AtValidEmptyEntry =>
          IF kw.retry_if_empty
          THEN /\ pc' = "try"
               /\ Fingerprint(kw, subperiods[i]) \notin DOMAIN cache'
               /\ parts' = parts
          ELSE /\ pc' \in {"lookup", "done"}
               /\ cache' = cache
               /\ calls' = calls
               /\ parts' = Append(parts, DataFrame(<<>>))]_vars

\* a valid empty entry written by the previous call has been deleted and the
\* remote is about to be called
C18_Witness ==
    /\ ncalls = 2
    /\ kw = prev.kw
    /\ kw.cache
    /\ prev.status = "done"
    /\ ~prev.nonEmpty
    /\ gap <= CACHE_VALID_DAYS
    /\ Len(subperiods) = 1
    /\ calls = 0
    /\ kw.retry_if_empty
    /\ pc = "try"
    /\ Fingerprint(kw, subperiods[1]) \notin DOMAIN cache

\* the last response of get_data is a failure that is not throttling
NonRetryable(r) ==
    \/ r.status \notin {0, 200, 429}
    \/ r.status = 200 /\ r.body = "errorpayload"

\* C19: a response with a status that is neither success nor 429, or a success
\* response with an error payload, ends get_data at once, with no further
\* request and no backoff sleep after it, and reaches the caller as an error
\* that carries the service-reported message.
C19_NonRetryableFailsFast ==
    (rpc = "idle" /\ NonRetryable(gd_resp)) =>
        /\ Len(sleeps) = attempts - 1
        /\ result = NoResult
        /\ error \notin {"none", "JSONDecodeError"}

\* the remote has just answered the current sub-request with zero rows
AnsweredEmpty ==
    /\ pc = "while"
    /\ temp = DataFrame(<<>>)

\* the empty answer is taken as the sub-period's result: no further remote
\* call, no sleep, no error
EmptyAccepted ==
    /\ pc' \in {"lookup", "done"}
    /\ calls' = calls
    /\ attempts' = attempts
    /\ sleeps' = sleeps
    /\ error' = "none"
    /\ parts' = Append(parts, DataFrame(<<>>))

\* the empty answer is retried as a transient failure: a backoff sleep and
\* another remote call
EmptyRetried ==
    /\ calls' = calls + 1
    /\ attempts' = attempts + 1
    /\ Len(sleeps') = Len(sleeps) + 1
    /\ parts' = parts

C21_TransportErrorsRetried ==
    (pc = "raised" /\ error = "RemoteException") => ~(RETRY < MAX_RETRIES)

\* C23: no backoff sleep is longer than MAX_SLEEP.
C23_BackoffCapped ==
    \A k \in 1..Len(sleeps) : sleeps[k] <= MAX_SLEEP

\* the entries of cache directory c2 that are new, or differ in dataset or are
\* younger than they were in c1
WrittenEntries(c1, c2) ==
    {f \in DOMAIN c2 : \/ f \notin DOMAIN c1
                       \/ c2[f].data # c1[f].data
                       \/ c2[f].age < c1[f].age}

\* the step accepts a fetched dataset with caching enabled
FetchSucceeds ==
    pc = "while" /\ temp # None /\ kw.cache /\ pc' \in {"lookup", "done"}

\* C24: an entry is created or overwritten only by the step that accepts a
\* fetched dataset with caching enabled, and that step leaves at the
\* sub-request's fingerprint the fetched dataset with the fetch time as its
\* timestamp and touches no other entry. A sub-request that fails creates
\* and overwrites no entry: the directory it leaves is the one it found, less
\* at most the entry at its own fingerprint, and only when that entry was
\* expired or was empty with retry_if_empty.
C24_EntryLifecycle ==
    [][ /\ FetchSucceeds =>
              cache' = [f \in DOMAIN cache \cup {Fingerprint(kw, subperiods[i])} |->
                          IF f = Fingerprint(kw, subperiods[i])
                          THEN [data |-> temp, age |-> 0] ELSE cache[f]]
        /\ WrittenEntries(cache, cache') # {} => (FetchSucceeds \/ pc = "idle")
        /\ (pc \in {"lookup", "try", "except", "while"} /\ pc' = "raised") =>
              /\ WrittenEntries(atLookup', cache') = {}
              /\ \A f \in DOMAIN atLookup' \ DOMAIN cache' :
                    /\ f = Fingerprint(kw, subperiods[i])
                    /\ \/ ~CacheValid(atLookup'[f].age)
                       \/ Size(atLookup'[f].data) = 0 /\ kw.retry_if_empty
      ]_vars

\* a fetch replaced the expired entry the lookup had found: the entry now
\* holds the fetched dataset, which differs from the old one, with age 0
C24_Witness ==
    /\ pc = "done"
    /\ kw.cache
    /\ expired
    /\ Fingerprint(kw, subperiods[i]) \in DOMAIN atLookup
    /\ Fingerprint(kw, subperiods[i]) \in DOMAIN cache
    /\ cache[Fingerprint(kw, subperiods[i])] = [data |-> parts[Len(parts)], age |-> 0]
    /\ atLookup[Fingerprint(kw, subperiods[i])].data # parts[Len(parts)]

\* C24 as stated: a sub-request that fails leaves the cache directory as it
\* found it.
C24_FailedChangesNothing ==
    (pc = "raised" /\ Len(subperiods) > 0) => cache = atLookup

C27_RetryBudgetPerSubRequest ==
    (pc = "try") => (RETRY = 0 /\ attempts = 0 /\ sleeps = <<>>)

\* the second sub-period is about to make its first attempt after the first
\* sub-period used every retry
C27_Witness ==
    /\ pc = "try"
    /\ i = 2
    /\ calls = MAX_RETRIES + 1

\* C28: a call answered entirely from valid cache entries returns without
\* any wait: a get_data call that returned its cached DataFrame was not made
\* to wait by the rate limiter.
C28_CacheServedNeverWaits ==
    (rpc = "idle" /\ result = GdDataFrame /\ attempts = 0) => gd_waited = 0

\* C29: a get_data call issues at most MAX_RETRIES requests, and a call whose
\* MAX_RETRIES requests were all answered 429 (each followed by its backoff
\* sleep) ends with an error raised to the caller, not with an ordinary
\* result.
C29_ThrottlingEndsFatal ==
    /\ attempts <= MAX_RETRIES
    /\ (rpc = "idle" /\ Len(sleeps) = MAX_RETRIES) =>
           (error # "none" /\ result = NoResult)

\* most remote attempts one sub-request can make: the first, and MAX_RETRIES
\* retries
AttemptBound == MAX_RETRIES + 1

\* C30: every getFinalData call that has started ends, returning a dataset or
\* raising; no sub-request makes more than AttemptBound remote attempts and
\* the call makes at most (number of sub-periods) * AttemptBound remote calls.
C30_Termination ==
    /\ [](attempts <= AttemptBound /\ calls <= Len(subperiods) * AttemptBound)
    /\ (pc \in {"lookup", "try", "except", "while"}) ~> (pc \in {"done", "raised"})

\* a call over two sub-periods returned after using every attempt of both
C30_Witness ==
    /\ pc = "done"
    /\ Len(subperiods) = 2
    /\ calls = 2 * AttemptBound

----------------------------------------------------------------------------
(* Claims about rank and total_rank_perc *)

\* the distinct values of the value column in the group of row k
GroupValues(k) == {adf[j]["v"] : j \in GroupOf(adf, akeys, k)}

\* C9: rank gives one integer per input row and is a dense rank: within each
\* group the largest value has rank 1, equal values have equal rank, a smaller
\* value has a larger rank, and the ranks used in a group of k distinct values
\* are exactly 1..k; the values 100, 100, 50, 10 get the ranks 1, 1, 2, 3.
C9_DenseRank ==
    apc = "rank" =>
        /\ DOMAIN aout = 1..Len(adf)
        /\ \A k \in 1..Len(adf) :
              /\ aout[k] \in Int
              /\ (aout[k] = 1) <=> (\A w \in GroupValues(k) : w <= adf[k]["v"])
              /\ {aout[j] : j \in GroupOf(adf, akeys, k)}
                    = 1..Cardinality(GroupValues(k))
              /\ \A j \in GroupOf(adf, akeys, k) :
                    /\ adf[j]["v"] = adf[k]["v"] => aout[j] = aout[k]
                    /\ adf[j]["v"] < adf[k]["v"] => aout[j] > aout[k]
        /\ adf = ScenarioRows => aout = <<1, 1, 2, 3>>

\* a rank was computed for a group holding a tie above a smaller value
C9_Witness ==
    /\ apc = "rank"
    /\ \E j, k, l \in 1..Len(adf) :
          /\ j # k
          /\ {j, l} \subseteq GroupOf(adf, akeys, k)
          /\ adf[j]["v"] = adf[k]["v"]
          /\ adf[l]["v"] < adf[k]["v"]
          /\ aout[l] = aout[k] + 1

\* the rows of the DataFrame that share the given key columns with row r
RowsSharing(r, keys) ==
    {j \in 1..Len(adf) : GroupKey(adf[j], keys) = GroupKey(r, keys)}

\* the sum S of the rows of the groupby group of row r, and the sum over the
\* rows that share groupby minus its last element with it
OwnSum(r) == SumCol(adf, "v", RowsSharing(r, akeys))
ParentSum(r) == SumCol(adf, "v", RowsSharing(r, ButLast(akeys)))

TotalRankPercReturned == apc \in {"total_rank_perc", "total_rank_perc_dedup"}

\* C10 (as stated): every row's p_perc is its value / S and its p_upper_perc is
\* S / parent_sum.
C10_PercOfOwnGroup ==
    TotalRankPercReturned =>
        \A k \in 1..Len(aout) :
            /\ FracEq(aout[k]["p_perc"], Frac(aout[k]["v"], OwnSum(aout[k])))
            /\ FracEq(aout[k]["p_upper_perc"],
                      Frac(OwnSum(aout[k]), ParentSum(aout[k])))

\* C10 (amended): every row's p_perc is its value / parent_sum and its
\* p_upper_perc is S / parent_sum, where S is the sum of the rows of its
\* groupby group and parent_sum the sum over the rows that share groupby minus
\* its last element.
C10_PercOfParent ==
    TotalRankPercReturned =>
        \A k \in 1..Len(aout) :
            /\ FracEq(aout[k]["p_perc"], Frac(aout[k]["v"], ParentSum(aout[k])))
            /\ FracEq(aout[k]["p_upper_perc"],
                      Frac(OwnSum(aout[k]), ParentSum(aout[k])))

\* total_rank_perc ran on a parent group split into two groups, one of them
\* with more than one row
C10_Witness ==
    /\ TotalRankPercReturned
    /\ \E k \in 1..Len(aout) :
          /\ OwnSum(aout[k]) < ParentSum(aout[k])
          /\ aout[k]["v"] < OwnSum(aout[k])

\* the sum of the value column over the rows of the input that share the
\* given key columns with row r
RECURSIVE InputSum(_, _, _)
InputSum(r, keys, n) ==
    IF n = 0 THEN 0
    ELSE InputSum(r, keys, n - 1)
         + (IF GroupKey(ain[n], keys) = GroupKey(r, keys) THEN ain[n]["v"] ELSE 0)

\* C11: on every row total_rank_perc returns, p_sum is the sum of the value
\* column over the rows sharing the row's full groupby tuple, p_perc is the
\* row's value divided by the subtotal over groupby minus its last element,
\* p_upper_sum is that parent subtotal, and p_upper_perc is p_sum / p_upper_sum.
C11_ColumnDefinitions ==
    TotalRankPercReturned =>
        \A k \in 1..Len(aout) :
            LET r == aout[k]
                parent == InputSum(r, ButLast(akeys), Len(ain))
            IN  /\ r["p_sum"] = InputSum(r, akeys, Len(ain))
                /\ r["p_perc"] = Frac(r["v"], parent)
                /\ r["p_upper_sum"] = parent
                /\ r["p_upper_perc"] = Frac(r["p_sum"], r["p_upper_sum"])

\* total_rank_perc returned a row of a group of several rows inside a parent
\* group that holds another group as well
C11_Witness ==
    /\ TotalRankPercReturned
    /\ \E k \in 1..Len(aout) :
          /\ aout[k]["v"] < aout[k]["p_sum"]
          /\ aout[k]["p_sum"] < aout[k]["p_upper_sum"]

\* C12: subtotal returns one value per input row, in input row order; the
\* value for a row is the sum of the value column over all rows with the same
\* group keys, so the rows of one group all carry the same value.
C12_BroadcastAggregate ==
    apc = "subtotal" =>
        /\ DOMAIN aout = 1..Len(ain)
        /\ \A k \in 1..Len(ain) :
              /\ aout[k] = InputSum(ain[k], akeys, Len(ain))
              /\ \A j \in 1..Len(ain) :
                    GroupKey(ain[j], akeys) = GroupKey(ain[k], akeys)
                        => aout[j] = aout[k]

\* subtotal ran on rows of two groups, one of them with two rows of
\* different value that are not next to each other
C12_Witness ==
    /\ apc = "subtotal"
    /\ \E j, k, l \in 1..Len(ain) :
          /\ j < l /\ l < k
          /\ GroupKey(ain[j], akeys) = GroupKey(ain[k], akeys)
          /\ GroupKey(ain[j], akeys) # GroupKey(ain[l], akeys)
          /\ ain[j]["v"] # ain[k]["v"]
          /\ aout[j] = ain[j]["v"] + ain[k]["v"]

\* the input rows that are the first of their groupby tuple, and the n-th of
\* them in input order
FirstOccurrences ==
    {j \in 1..Len(ain) :
        \A x \in 1..(j - 1) : GroupKey(ain[x], akeys) # GroupKey(ain[j], akeys)}
NthFirstOccurrence(n) ==
    CHOOSE j \in FirstOccurrences :
        Cardinality({x \in FirstOccurrences : x < j}) = n - 1

\* C13: with drop_duplicates true total_rank_perc returns exactly one row per
\* distinct groupby tuple of the input, the first occurrence, in input order,
\* carrying the subtotal and the rank computed before the deduplication; with
\* drop_duplicates false it returns as many rows as the input has.
C13_Deduplication ==
    /\ apc = "total_rank_perc_dedup" =>
          /\ Len(aout) = Cardinality({GroupKey(ain[j], akeys) : j \in 1..Len(ain)})
          /\ \A k \in 1..Len(aout) :
                LET j == NthFirstOccurrence(k)
                IN  /\ \A c \in DOMAIN ain[j] : aout[k][c] = ain[j][c]
                    /\ aout[k]["p_sum"] = subtotal(ain, akeys, "v")[j]
                    /\ aout[k]["p_rank"] = rank(adf, ButLast(akeys), "p_sum")[j]
    /\ apc = "total_rank_perc" => Len(aout) = Len(ain)

\* the deduplication dropped a row whose value differs from the value of the
\* first row of its group, kept a row after it, and ranks differ in the result
C13_Witness ==
    /\ apc = "total_rank_perc_dedup"
    /\ Len(aout) = 2
    /\ Len(ain) = 3
    /\ GroupKey(ain[1], akeys) = GroupKey(ain[2], akeys)
    /\ ain[1]["v"] # ain[2]["v"]
    /\ aout[1]["p_rank"] # aout[2]["p_rank"]

\* C14: subtotal, rank and total_rank_perc leave the caller's dataset as it
\* was: the same rows, the same columns, the same values.
C14_InputNotMutated ==
    apc \notin {"start", "parked"} => adf = ain

\* the subtotals of the groupby groups that share groupby minus its last
\* element with row r
SiblingSubtotals(r) ==
    {OwnSum(adf[j]) : j \in RowsSharing(r, ButLast(akeys))}

\* C32: p_rank of a row is the dense rank (1 = largest) of its group's
\* subtotal among the subtotals of the distinct groups that share groupby
\* minus its last element: one more than the number of distinct larger
\* subtotals, so the rows of one group have one rank and the number of rows
\* in a group changes no rank.
C32_RankOfSubtotal ==
    TotalRankPercReturned =>
        \A k \in 1..Len(aout) :
            aout[k]["p_rank"] =
                Cardinality({t \in SiblingSubtotals(aout[k]) : t > OwnSum(aout[k])}) + 1

\* a group of two rows has the larger subtotal and rank 1 although one of its
\* rows is smaller than the subtotal of its sibling, which has rank 2
C32_Witness ==
    /\ TotalRankPercReturned
    /\ \E j, k \in 1..Len(aout) :
          /\ GroupKey(aout[j], ButLast(akeys)) = GroupKey(aout[k], ButLast(akeys))
          /\ Cardinality(RowsSharing(aout[k], akeys)) = 2
          /\ aout[k]["v"] < OwnSum(aout[j])
          /\ OwnSum(aout[j]) < OwnSum(aout[k])
          /\ aout[k]["p_rank"] = 1
          /\ aout[j]["p_rank"] = 2

----------------------------------------------------------------------------
(* Claims about the API key *)

\* the string s occurs in the record
Contains(record, s) ==
    \E n \in 1..(Len(record) - Len(s) + 1) : SubSeq(record, n, n + Len(s) - 1) = s

\* the longest prefix of the key that a record shows after its fixed text
ShownPrefixes ==
    {n \in 0..Len(key) : \E m \in 1..Len(klog) : Contains(klog[m], Prefix(key, n))}

\* C15: whatever the API key, no log record and no echoed URL of get_url,
\* get_data or getFinalData contains the complete key; what is shown of it is
\* a prefix strictly shorter than the key; and a run with a key that differs
\* only after that prefix produces the same output.
C15_KeyNotInOutput ==
    kpc = "returned" =>
        /\ \A m \in 1..Len(klog) : ~Contains(klog[m], key)
        /\ \A n \in ShownPrefixes : n < Len(key)
        /\ \A other \in Keys :
              (/\ Len(other) = Len(key)
               /\ Prefix(other, KeyPrefixLen) = Prefix(key, KeyPrefixLen))
                  => KeyOutput(kcall, other, loglevel) = klog

----------------------------------------------------------------------------
(* Claims about the fingerprint *)

\* the two requests were given the same keyword parameters with the same values
SameParameters(a, b) ==
    {a[n] : n \in 1..Len(a)} = {b[n] : n \in 1..Len(b)}

\* C16: two sub-requests with equal keyword parameters (extras and
\* use_alternative included) and an equal sub-period compute the same
\* fingerprint and address the same cache file.
C16_FingerprintDeterminism ==
    (fpc = 2 /\ SameParameters(fkw[1], fkw[2])) => ffp[1] = ffp[2]

\* the keyword parameters of a request as a set, partner2Code at its default
\* of 0 when it was left out
Meaning(a) ==
    {a[n] : n \in 1..Len(a)}
        \cup (IF HasKey(a, "partner2Code") THEN {} ELSE {[k |-> "partner2Code", v |-> "0"]})

\* C34: two requests that pass the same keyword parameters with the same
\* values, in whatever order, and with partner2Code=0 either passed or left to
\* its default, compute the same fingerprint for the sub-period.
C34_SameMeaningSameEntry ==
    (fpc = 2 /\ Meaning(fkw[1]) = Meaning(fkw[2])) => ffp[1] = ffp[2]

-----------------------------------------------------------------------------
(* Claims about clean_cache *)

\* C22: a run of clean_cache removes every file older than CACHE_VALID_DAYS
\* and leaves every other file as it was (content, modification time and
\* access mark), whether or not the file was ever read; init runs it as its
\* last step, and an init that is neither the first nor forced does not run it.
C22_Sweep ==
    [][ /\ (wpc' = "init_done") => (sweeps' = sweeps + 1)
        /\ (sweeps' # sweeps) =>
              /\ ~INIT_DONE \/ forced' # forced
              /\ \A f \in FileNames :
                    IF cdir[f].present /\ cdir[f].age > CACHE_VALID_DAYS
                    THEN ~cdir'[f].present
                    ELSE cdir'[f] = cdir[f]
        /\ (wpc' = "init_skipped") => (sweeps' = sweeps /\ cdir' = cdir)
      ]_vars

\* a sweep removed a file that had been read and kept an unread file that is
\* exactly CACHE_VALID_DAYS old, and a later unforced init was skipped
C22_Witness ==
    /\ wpc = "init_skipped"
    /\ sweeps = 1
    /\ forced = 0
    /\ ~cdir[1].present
    /\ cdir[2] = File(CACHE_VALID_DAYS, "old", FALSE)

-----------------------------------------------------------------------------
(* Claims about top_commodities *)

\* the dense rank of a row's value among the rows of its flow that share the
\* value of column `within`
DenseRankWithin(d, k, within) ==
    Cardinality({d[j].primaryValue :
                    j \in {x \in 1..Len(d) : /\ d[x].flowCode = d[k].flowCode
                                             /\ d[x][within] = d[k][within]
                                             /\ d[x].primaryValue > d[k].primaryValue}}) + 1

\* the total of the rows of a row's flow that share the value of `within`
TotalWithin(d, k, within) ==
    SumCol(d, "primaryValue",
           {x \in 1..Len(d) : /\ d[x].flowCode = d[k].flowCode
                              /\ d[x][within] = d[k][within]})

\* the dense rank of that total among the totals of the row's flow
DenseRankOfTotal(d, k, within) ==
    Cardinality({TotalWithin(d, j, within) :
                    j \in {x \in 1..Len(d) : /\ d[x].flowCode = d[k].flowCode
                                             /\ TotalWithin(d, x, within) >
                                                    TotalWithin(d, k, within)}}) + 1

\* the rows (as flow, commodity description, partner description, formatted
\* value) that are among the top n of `outer` and, within it, the top n of
\* the other column
TopNested(d, n, outer) ==
    {<<d[k].flowCode, d[k].cmdDesc, d[k].partnerDesc, d[k].primaryValueFormated>> :
        k \in {x \in 1..Len(d) : /\ DenseRankOfTotal(d, x, outer) <= n
                                 /\ DenseRankWithin(d, x, outer) <= n}}

ShownRows(rows) ==
    {<<rows[k].flowCode, rows[k].cmdDesc, rows[k].partnerDesc,
       rows[k].primaryValueFormated>> : k \in 1..Len(rows)}

\* C25: for a dataset with rows, both modes return a result; partner_first
\* returns the rows of the top rank_filter partners and, within each, the top
\* rank_filter commodities, and the default mode the rows of the top
\* commodities and, within each, the top partners.
C25_BothModesReturn ==
    (tpc \in {"returned", "raised"} /\ tdf # None) =>
        /\ tout.kind \in {"DataFrame", "tuple"}
        /\ ShownRows(tout.rows) =
              TopNested(tdf.rows, targs.rank_filter,
                        IF targs.partner_first THEN "partnerCode" ELSE "cmdCode")

\* the default mode returns the nested top rows
C25_DefaultMode ==
    (tpc \in {"returned", "raised"} /\ tdf # None /\ ~targs.partner_first) =>
        /\ tout.kind \in {"DataFrame", "tuple"}
        /\ ShownRows(tout.rows) = TopNested(tdf.rows, targs.rank_filter, "cmdCode")

----------------------------------------------------------------------------
(* Claims about concurrent processes at one cache file *)

\* the statements between the existence check and the first use of the file
AfterCheck == {"getmtime", "load", "remove_expired"}

\* C31: the existence check, the read, the deletes and the write are
\* separate steps without a lock. A process fails with FileNotFoundError at
\* getmtime, at the read or at the delete of the expired file only when
\* another process deleted the file after this process's existence check,
\* and with EOFError at the read only when another process had opened the
\* file for writing; and there is such an interleaving.
C31_CacheFileRace ==
    \A p \in Procs :
        /\ (qerr[p] = "FileNotFoundError" /\ qpc[p] \in AfterCheck) => qtouched[p]
        /\ (qerr[p] = "EOFError") =>
               \E o \in Other(p) : qpc[o] \in {"dump", "returned"} /\ qerr[o] = "none"

\* process 1 found the file, process 2 then removed it, and process 1 failed
\* with FileNotFoundError where it would have read the file
C31_Witness ==
    /\ qerr[1] = "FileNotFoundError"
    /\ qpc[1] = "load"
    /\ qtouched[1]
    /\ qerr[2] = "none"
    /\ qfile = NoFile

----------------------------------------------------------------------------
(* Claims about repeating a failed call *)

EntryOf(j) == Fingerprint(kw, subperiods[j])

\* the call at hand repeats the previous call, which failed at sub-period
\* prev.at after leaving a fresh, non-empty entry for every earlier
\* sub-period, and comes within the validity window after it
RepeatsFailedCall ==
    /\ pc # "idle"
    /\ ncalls >= 2
    /\ kw = prev.kw
    /\ kw.cache
    /\ prev.status = "raised"
    /\ prev.at >= 2
    /\ prev.fresh
    /\ prev.nonEmpty
    /\ gap <= CACHE_VALID_DAYS

\* C33: when a call with cache=True fails at sub-period k, the datasets it
\* accepted for sub-periods 1..k-1 are in the cache as accepted; a repeat of
\* the call within the validity window of those entries, when they are
\* non-empty, gets to sub-period k without a remote call and without
\* failing, the earlier sub-periods' datasets being the cached ones, which
\* are still in the cache.
C33_FailedCallKeepsWork ==
    /\ (pc = "raised" /\ kw.cache) =>
           \A j \in 1..Len(parts) :
               /\ EntryOf(j) \in DOMAIN cache
               /\ cache[EntryOf(j)].data = parts[j]
    /\ RepeatsFailedCall =>
           /\ (i < prev.at \/ (i = prev.at /\ pc = "lookup")) =>
                  /\ calls = 0
                  /\ pc # "raised"
           /\ \A j \in 1..Min(Len(parts), prev.at - 1) :
                  /\ EntryOf(j) \in DOMAIN cache
                  /\ cache[EntryOf(j)].data = parts[j]
                  /\ cache[EntryOf(j)].age = gap
           /\ i >= prev.at => Len(parts) >= prev.at - 1

\* the repeat, a validity window after the call that failed at its second
\* sub-period, took the first sub-period from the cache and issued a remote
\* call for the second
C33_Witness ==
    /\ RepeatsFailedCall
    /\ gap = CACHE_VALID_DAYS
    /\ prev.at = 2
    /\ i = 2
    /\ calls = 1
    /\ Len(parts) = 1
    /\ Size(parts[1]) > 0
    /\ cache[EntryOf(1)].data = parts[1]

----------------------------------------------------------------------------
(* Claims about the cache of get_data *)

\* C35: a get_data call served from the cache returns the dataset a fetch
\* with its own arguments returns: calls that differ in motCode,
\* qtyUnitCodeFilter or more_pars are not served each other's datasets.
C35_CacheHitIsFreshFetch ==
    \A n \in 1..Len(gout) : gout[n].hit => gout[n].df = Fetched(gargs[n])

----------------------------------------------------------------------------
(* Claims about sharing cache entries across keys and flags *)

\* what the service answers for the sub-period of a fingerprint
RawDatasets(f) == {DataFrame(RowsFor(f.partnerCode, f.period)), DataFrame(<<>>)}

\* the call at hand asks, with caching enabled, for the sub-period the
\* previous call fetched and cached, within the validity window
AsksForCachedSubperiod ==
    /\ pc # "idle"
    /\ ncalls >= 2
    /\ kw.cache
    /\ prev.kw.cache
    /\ prev.status = "done"
    /\ prev.onePerSub
    /\ gap <= CACHE_VALID_DAYS
    /\ prev.nonEmpty \/ ~kw.retry_if_empty

\* C36: whatever API key and whatever values of cache, retry_if_empty,
\* remove_world and period_size the previous call was made with, a call for
\* the sub-period it cached is served from that entry without a remote call;
\* every entry holds the dataset as the service returned it, world rows
\* included, and the world rows are removed from what is returned according
\* to the flags of the call at hand.
C36_SharedAcrossKeysAndFlags ==
    /\ \A f \in DOMAIN cache : cache[f].data \in RawDatasets(f)
    /\ AsksForCachedSubperiod =>
           /\ calls = 0
           /\ pc # "raised"
           /\ Fingerprint(kw, kw.period) \in DOMAIN cache
           /\ pc = "done" =>
                  result.rows =
                      RemoveWorldRows(cache[Fingerprint(kw, kw.period)].data.rows,
                                      kw.partnerCode, kw.remove_world)

\* a call with KEY2 and remove_world was served, without a remote call, the
\* entry cached by a call with KEY1 that had other flags; the entry has the
\* world row, the returned dataset has not
C36_Witness ==
    /\ AsksForCachedSubperiod
    /\ pc = "done"
    /\ calls = 0
    /\ prev.kw.p = "KEY1" /\ kw.p = "KEY2"
    /\ ~prev.kw.remove_world /\ kw.remove_world
    /\ prev.kw.retry_if_empty # kw.retry_if_empty
    /\ prev.kw.period_size # kw.period_size
    /\ PartnerCodes(cache[Fingerprint(kw, kw.period)].data.rows) = <<226, WorldCode, 620>>
    /\ PartnerCodes(result.rows) = <<226, 620>>

----------------------------------------------------------------------------
(* Claims about checkAggregateValues *)

\* the rows after row k whose code differs from row k's
LaterDistinct(k) == {j \in (k + 1)..Len(hcodes) : hcodes[j] # hcodes[k]}

Least(S) == CHOOSE j \in S : \A m \in S : j <= m

\* the flag of row k: True when the next distinct code starts with row k's
IsAggregate(k) ==
    IF LaterDistinct(k) # {} /\ startswith(hcodes[Least(LaterDistinct(k))], hcodes[k])
    THEN "True"
    ELSE "False"

\* C37: after the pass over a column sorted ascending every row has its
\* flag set, True exactly when the code of the next distinct row starts with
\* the row's code and False otherwise, so the last row's is False and rows
\* with the same code have the same flag.
C37_AggregateFlags ==
    hpc = "returned" =>
        /\ \A k \in 1..Len(hcodes) : hflags[k] = IsAggregate(k)
        /\ Len(hcodes) > 0 => hflags[Len(hcodes)] = "False"
        /\ \A j, k \in 1..Len(hcodes) : hcodes[j] = hcodes[k] => hflags[j] = hflags[k]

============================================================================
